---- MODULE Spec2Model ----
(***************************************************************************)
(* A model of the KPI data aggregator: the SQLite metric store             *)
(* (core/database.py), its scrape log, the CSV projection, and the         *)
(* orchestrator (core/driver.py) with the CUIC worker.                     *)
(*                                                                         *)
(* Encodings.  A calendar day 'YYYY-MM-DD' is a day number, a timestamp    *)
(* 'YYYY-MM-DD HH:MM:SS' is a tick number; the day of tick t is            *)
(* t \div TicksPerDay, so the string order of the code is the integer      *)
(* order here.  A Python value is a record [t |-> type, ...]; a table is a *)
(* bag of rows, so that two equal rows would be two rows.                  *)
(***************************************************************************)
EXTENDS Integers, Sequences, FiniteSets, Bags, TLC

VARIABLES
    now,            \* the wall clock, in ticks
    schema,         \* TRUE once the tables and the unique index exist
    kpi_snapshots,  \* the committed kpi_snapshots table, a bag of rows
    scrape_log,     \* the committed scrape_log table, in id order (id = index)
    files,          \* the files on disk: the exported CSV, the ingestion CSV, the dictionary
    config,         \* config/settings.json as the run reads it
    exp,            \* export_csv: where it stands, the DataFrame it writes
    run,            \* run_all_workers: where it stands, its summary so far
    retired,        \* history: the keys retention deleted and no worker observed since
    txn,            \* the writer's open connection: its statements and working table
    srv,            \* the settings server: _discovery_running, the requests being handled
    last,           \* the call that completed last: its name, arguments, outcome
    again           \* TRUE when that call repeated the call completed before it

vars ==
    <<now, schema, kpi_snapshots, scrape_log, files, config, exp, run, retired, txn, srv,
      last, again>>

(***************************************************************************)
(* Bounds of the model.                                                    *)
(***************************************************************************)
MaxNow == 2
TicksPerDay == 2
MaxBatch == 2
MaxRows == 2
MaxKeep == 1

Today(t) == t \div TicksPerDay
Days == 0 .. Today(MaxNow)

(***************************************************************************)
(* Python values: int, str and None.                                       *)
(***************************************************************************)
PyInt(i) == [t |-> "int", i |-> i]
PyStr(s) == [t |-> "str", s |-> s]
PyNone == [t |-> "None"]

\* str(v)
Str(v) ==
    CASE v.t = "int" -> ToString(v.i)
      [] v.t = "str" -> v.s
      [] OTHER -> "None"

\* dict.get(k, default)
Get(item, k, default) == IF k \in DOMAIN item THEN item[k] ELSE default

Sources == {"cuic", "smax"}

\* The observation dicts a caller may hand to upsert_metrics.
Items == {
    [metric_title |-> PyStr("hist"), value |-> PyInt(1)],
    [metric_title |-> PyStr("hist"), category |-> PyStr(""),
     sub_category |-> PyStr(""), value |-> PyStr("2")],
    [metric_title |-> PyStr("CUIC_Calls"), category |-> PyStr("a"),
     sub_category |-> PyStr("hist"), value |-> PyInt(2)],
    [metric_title |-> PyStr("hist"), category |-> PyNone, value |-> PyInt(1)] }

RECURSIVE SeqsUpTo(_, _)
SeqsUpTo(S, n) ==
    IF n = 0 THEN {<<>>}
    ELSE LET shorter == SeqsUpTo(S, n - 1)
         IN  shorter \cup {Append(s, x) : s \in {q \in shorter : Len(q) = n - 1}, x \in S}

Batches == SeqsUpTo(Items, MaxBatch)

(***************************************************************************)
(* The kpi_snapshots table.                                                *)
(***************************************************************************)
KeyCols == {"date", "source", "metric_title", "category", "sub_category"}

\* The columns of the unique index idx_kpi_dedup.
Key(r) == <<r.date, r.source, r.metric_title, r.category, r.sub_category>>

Rows(table) == BagToSet(table)

\* A bound parameter as SQLite stores it in a TEXT column.
Stored(v) == IF v.t = "str" THEN v.s ELSE ToString(v.i)

\* The parameter tuple upsert_metrics builds for one item.
ParamRow(source_name, item, current_date, ts) ==
    [date |-> current_date, timestamp |-> ts, source |-> source_name,
     metric_title |-> Get(item, "metric_title", PyStr("")),
     category |-> Get(item, "category", PyStr("")),
     sub_category |-> Get(item, "sub_category", PyStr("")),
     value |-> PyStr(Str(Get(item, "value", PyStr(""))))]

\* NOT NULL on every column: a None parameter makes the statement fail.
Binds(p) ==
    \A c \in {"metric_title", "category", "sub_category", "value"} : p[c].t # "None"

TextRow(p) ==
    [date |-> p.date, timestamp |-> p.timestamp, source |-> p.source,
     metric_title |-> Stored(p.metric_title), category |-> Stored(p.category),
     sub_category |-> Stored(p.sub_category), value |-> Stored(p.value)]

\* A plain INSERT with no unique index behind it.
UpsertRowInsertOnly(table, row) == table (+) SetToBag({row})

\* INSERT ... ON CONFLICT DO NOTHING.
UpsertRowIgnore(table, row) ==
    IF \E r \in Rows(table) : Key(r) = Key(row) THEN table
    ELSE table (+) SetToBag({row})

\* _UPSERT_SQL on one row: INSERT ... ON CONFLICT (key) DO UPDATE SET timestamp, value.
UpsertRow(table, row) ==
    IF \E r \in Rows(table) : Key(r) = Key(row)
    THEN LET old == CHOOSE r \in Rows(table) : Key(r) = Key(row)
         IN  (table (-) SetToBag({old}))
               (+) SetToBag({[old EXCEPT !.timestamp = row.timestamp, !.value = row.value]})
    ELSE table (+) SetToBag({row})

RECURSIVE ExecuteMany(_, _)
\* conn.executemany(_UPSERT_SQL, rows): the working table of the transaction
\* and whether every statement ran (the first failing one raises).
ExecuteMany(table, params) ==
    IF params = <<>> THEN [ok |-> TRUE, table |-> table]
    ELSE IF ~Binds(Head(params)) THEN [ok |-> FALSE, table |-> table]
    ELSE ExecuteMany(UpsertRow(table, TextRow(Head(params))), Tail(params))

\* What a transaction leaves committed when the connection is closed:
\* commit() was reached only if nothing raised; close() without commit()
\* discards the uncommitted statements.
Committed(before, done) == IF done.ok THEN done.table ELSE before

NoDate == -1

\* A completed call: its name, its arguments, the clock it read, what it returned.
Call(op, args, ts, ret) == [op |-> op, args |-> args, ts |-> ts, ret |-> ret]

NoCall == Call("none", <<>>, 0, "ok")

\* TRUE when call b repeats call a: the same operation on the same arguments.
Repeats(a, b) == a.op = b.op /\ a.args = b.args

(***************************************************************************)
(* CSV files.  A file is [exists, header, rows]: the header is the set of  *)
(* column names, a row maps each column to the text of its cell.           *)
(***************************************************************************)
NoFile == [exists |-> FALSE]

CsvFile(header, rows) == [exists |-> TRUE, header |-> header, rows |-> rows]

LongColumns ==
    {"date", "timestamp", "source", "metric_title", "category", "sub_category", "value"}

\* The files a caller may name in csv_path, by path.
InputFiles ==
    [old |-> CsvFile({"date", "timestamp", "source", "metric_title", "value"},
                     <<[date |-> 0, timestamp |-> 0, source |-> "cuic",
                        metric_title |-> "hist", value |-> "1"]>>),
     dup |-> CsvFile(LongColumns,
                     <<[date |-> 0, timestamp |-> 0, source |-> "cuic",
                        metric_title |-> "hist", category |-> "", sub_category |-> "",
                        value |-> "2"],
                       [date |-> 0, timestamp |-> 1, source |-> "cuic",
                        metric_title |-> "hist", category |-> "", sub_category |-> "",
                        value |-> ""]>>),
     novalue |-> CsvFile({"date", "timestamp", "source", "metric_title"},
                         <<[date |-> 0, timestamp |-> 0, source |-> "cuic",
                            metric_title |-> "hist"]>>),
     headeronly |-> CsvFile(LongColumns, <<>>),
     zero |-> CsvFile({}, <<>>),
     pair |-> CsvFile(LongColumns,
                      <<[date |-> 0, timestamp |-> 0, source |-> "cuic",
                         metric_title |-> "hist", category |-> "a", sub_category |-> "",
                         value |-> "1"],
                        [date |-> 0, timestamp |-> 0, source |-> "smax",
                         metric_title |-> "hist", category |-> "a", sub_category |-> "",
                         value |-> "2"]>>),
     missing |-> NoFile]

Paths == DOMAIN InputFiles

\* pandas.read_csv: the cells it reads as NaN, as an integer, as a float.
NaText == {""}
IntText == {"1", "2"}
FloatText == {"1.0", "2.0"}

Cells(rows, c) == {rows[i][c] : i \in 1 .. Len(rows)}

\* The dtype read_csv infers for column c.
ColumnKind(rows, c) ==
    LET given == Cells(rows, c) \ NaText
    IN  IF given \subseteq IntText
        THEN IF given = Cells(rows, c) /\ given # {} THEN "int" ELSE "float"
        ELSE IF given \subseteq IntText \cup FloatText THEN "float" ELSE "object"

\* repr of a float read from the text.
FloatRepr(text) ==
    CASE text \in {"1", "1.0"} -> "1.0"
      [] text \in {"2", "2.0"} -> "2.0"
      [] OTHER -> text

\* str() of a cell of column c after read_csv and fillna('').
CellStr(rows, c, text) ==
    IF text \in NaText THEN ""
    ELSE CASE ColumnKind(rows, c) = "int" -> text
           [] ColumnKind(rows, c) = "float" -> FloatRepr(text)
           [] OTHER -> text

\* The rows stamped with the time of the import instead of the file's.
MigrateRowsStamped(file) ==
    [i \in 1 .. Len(file.rows) |->
       [date |-> file.rows[i].date, timestamp |-> now,
        source |-> file.rows[i].source, metric_title |-> file.rows[i].metric_title,
        category |-> "", sub_category |-> "", value |-> file.rows[i].value]]

\* The parameter tuples migrate_csv_to_db builds: the optional columns are
\* filled with '' when the file lacks them.
MigrateRows(file) ==
    LET rows == file.rows
        cell(i, c) == IF c \in file.header THEN CellStr(rows, c, rows[i][c]) ELSE ""
    IN  [i \in 1 .. Len(rows) |->
           [date |-> rows[i].date, timestamp |-> rows[i].timestamp,
            source |-> cell(i, "source"), metric_title |-> cell(i, "metric_title"),
            category |-> cell(i, "category"), sub_category |-> cell(i, "sub_category"),
            value |-> cell(i, "value")]]

RequiredColumns == {"date", "timestamp", "source", "metric_title", "value"}

\* TRUE when migrate_csv_to_db returns 0 before it touches the database.
MigrateSkips(file) ==
    \/ ~file.exists
    \/ file.rows = <<>>
    \/ ~(RequiredColumns \subseteq file.header)

RECURSIVE UpsertAll(_, _)
\* The loop of migrate_csv_to_db: one _UPSERT_SQL per row, in file order.
UpsertAll(table, rows) ==
    IF rows = <<>> THEN table
    ELSE UpsertAll(UpsertRow(table, Head(rows)), Tail(rows))

\* The disk before the first run: no CSV exists, neither the exported one
\* (out, with its .tmp), the one on the shared drive nor the ingestion CSV
\* (snap); the dictionary is empty.
NoFiles ==
    [out |-> NoFile, tmp |-> NoFile, shared |-> NoFile, shared_tmp |-> NoFile,
     snap |-> NoFile, doc |-> <<>>]

\* _default_settings: same_dir is TRUE when output_dir names the directory of
\* common_utils.py, so that the export and the ingestion share one CSV.
DefaultSettings ==
    [same_dir |-> FALSE, data_retention_days |-> MaxKeep, shared_drive_csv |-> FALSE]

\* No export in progress.
NoExport == [pc |-> "idle"]

\* No run in progress; the summary of the last run stays in the record.
NoRun ==
    [pc |-> "idle", runs |-> 0, w |-> 0, r |-> 0, all_data |-> <<>>,
     workers_succeeded |-> 0, workers_failed |-> 0, results |-> <<>>]

(***************************************************************************)
(* The ingestion adapter (common_utils.py): the snapshot CSV is loaded     *)
(* into a DataFrame, updated in memory and written back.  A DataFrame is a *)
(* sequence of rows of typed cells.                                        *)
(***************************************************************************)
PyFloat(text) == [t |-> "float", s |-> text]
NaN == [t |-> "nan"]

IntOf(text) == IF text = "1" THEN 1 ELSE 2

\* pandas.read_csv: the value of a cell of column c.
ReadCell(rows, c, text) ==
    IF text \in NaText THEN NaN
    ELSE CASE ColumnKind(rows, c) = "int" -> PyInt(IntOf(text))
           [] ColumnKind(rows, c) = "float" -> PyFloat(FloatRepr(text))
           [] OTHER -> PyStr(text)

\* DataFrame.to_csv: the text of a cell.
WriteCell(cell) ==
    CASE cell.t = "int" -> ToString(cell.i)
      [] cell.t \in {"float", "str"} -> cell.s
      [] OTHER -> ""

\* cell == x, elementwise, for a Python value x.
PyEq(cell, x) ==
    CASE cell.t = "str" -> x.t = "str" /\ cell.s = x.s
      [] cell.t = "int" -> x.t = "int" /\ cell.i = x.i
      [] cell.t = "float" -> x.t = "int" /\ cell.s = FloatRepr(ToString(x.i))
      [] OTHER -> FALSE

\* Series.fillna('')
FillNa(cell) == IF cell.t \in {"nan", "None"} THEN PyStr("") ELSE cell

TextCols == {"source", "metric_title", "category", "sub_category", "value"}

\* load_or_create_csv, then the columns update_snapshot_long adds as None.
LoadFrame(file) ==
    IF ~file.exists THEN <<>>
    ELSE [i \in 1 .. Len(file.rows) |->
            [c \in LongColumns |->
               IF c \notin file.header THEN PyNone
               ELSE IF c \in TextCols THEN ReadCell(file.rows, c, file.rows[i][c])
               ELSE file.rows[i][c]]]

\* save_csv
SaveFrame(df) ==
    CsvFile(LongColumns,
            [i \in 1 .. Len(df) |->
               [c \in LongColumns |->
                  IF c \in TextCols THEN WriteCell(df[i][c]) ELSE df[i][c]]])

\* The mask of update_snapshot_long for one item.
Mask(row, source_name, item, current_date) ==
    /\ row.date = current_date
    /\ PyEq(row.source, PyStr(source_name))
    /\ PyEq(row.metric_title, Get(item, "metric_title", PyStr("")))
    /\ PyEq(row.category, Get(item, "category", PyStr("")))
    /\ PyEq(FillNa(row.sub_category), Get(item, "sub_category", PyStr("")))

RECURSIVE update_snapshot_long(_, _, _, _, _)
\* The first matching row gets the new timestamp and value; with no match a
\* row is appended.
update_snapshot_long(df, source_name, data, current_date, ts) ==
    IF data = <<>> THEN df
    ELSE LET item == Head(data)
             value == Get(item, "value", PyInt(0))
             hits == {i \in 1 .. Len(df) : Mask(df[i], source_name, item, current_date)}
             next == IF hits # {}
                     THEN LET row_idx == CHOOSE i \in hits : \A j \in hits : i <= j
                          IN  [df EXCEPT ![row_idx].timestamp = ts, ![row_idx].value = value]
                     ELSE Append(df,
                                 [date |-> current_date, timestamp |-> ts,
                                  source |-> PyStr(source_name),
                                  metric_title |-> Get(item, "metric_title", PyStr("")),
                                  category |-> Get(item, "category", PyStr("")),
                                  sub_category |-> Get(item, "sub_category", PyStr("")),
                                  value |-> value])
         IN  update_snapshot_long(next, source_name, Tail(data), current_date, ts)

\* Byte order of the texts of the model, for sorted() and ORDER BY.
TextOrder ==
    <<"", "1", "1.0", "2", "2.0", "CUIC_Calls", "Tickets", "a", "cuic", "hist", "smax">>

Rank(text) == CHOOSE i \in 1 .. Len(TextOrder) : TextOrder[i] = text

RECURSIVE SortedTexts(_)
\* sorted(S) for a set of str.
SortedTexts(S) ==
    IF S = {} THEN <<>>
    ELSE LET least == CHOOSE x \in S : \A y \in S : Rank(x) <= Rank(y)
         IN  <<least>> \o SortedTexts(S \ {least})

\* update_data_dictionary_long: one entry per new non-empty title, appended.
update_data_dictionary_long(doc, new_metrics, source_name, ts) ==
    LET titles == SortedTexts({x.s : x \in {y \in new_metrics : y.t = "str" /\ y.s # ""}})
    IN  doc \o [i \in 1 .. Len(titles) |->
                  [metric |-> titles[i], source |-> source_name, detected |-> ts]]

\* What a to_csv that fails part-way leaves behind: nothing yet, or the
\* header and the first rows.
Torn(df) ==
    {CsvFile({}, <<>>)} \cup {CsvFile(LongColumns, SubSeq(df, 1, n)) : n \in 0 .. Len(df) - 1}

\* The steps of process_worker_result_long at which an exception can be
\* raised: in update_snapshot_long, in save_csv before anything is written
\* or part-way through to_csv, and in update_data_dictionary_long while the
\* document is read or while it is rewritten.
IngestFaults == {"none", "update", "save_refused", "save_torn", "doc_read", "doc_write"}

\* What a write that raises part-way leaves of the sequence it was writing.
Prefixes(seq) == {SubSeq(seq, 1, n) : n \in 0 .. Len(seq) - 1}

\* set(df['metric_title'].dropna().unique())
ExistingMetrics(df) == {df[i].metric_title : i \in 1 .. Len(df)} \ {NaN, PyNone}

\* set(item.get('metric_title', '') for item in data) - existing_metrics
NewMetrics(data, existing_metrics) ==
    {Get(data[i], "metric_title", PyStr("")) : i \in 1 .. Len(data)} \ existing_metrics

\* The boolean of the ingestion adapter, had its except clause logged the
\* error and gone on to return True.
ReturnedTrue(raised) == TRUE

\* try: ... return True / except Exception: ... return False
Returned(raised) == ~raised

\* process_worker_result_long on the snapshot CSV `file` and the dictionary:
\* the files it can leave and the boolean it returns, for a fault at one of
\* its steps.  to_csv writes into the CSV itself, and the document is
\* opened with 'w' and rewritten from its old content.
LongOutcomes(file, doc, source_name, data, t, fault) ==
    LET df == LoadFrame(file)
        existing_metrics == ExistingMetrics(df)
        updated == update_snapshot_long(df, source_name, data, Today(t), t)
        saved == SaveFrame(updated)
        new_metrics == NewMetrics(data, existing_metrics)
        new_doc == update_data_dictionary_long(doc, new_metrics, source_name, t)
    IN  CASE fault = "none" ->
               {[file |-> saved, doc |-> new_doc, ok |-> Returned(FALSE)]}
          [] fault \in {"update", "save_refused"} ->
               {[file |-> file, doc |-> doc, ok |-> Returned(TRUE)]}
          [] fault = "save_torn" ->
               {[file |-> f, doc |-> doc, ok |-> Returned(TRUE)] : f \in Torn(saved.rows)}
          [] fault = "doc_read" ->
               {[file |-> saved, doc |-> IF new_metrics = {} THEN new_doc ELSE doc,
                 ok |-> Returned(new_metrics # {})]}
          [] OTHER ->
               IF new_doc = doc
               THEN {[file |-> saved, doc |-> doc, ok |-> Returned(FALSE)]}
               ELSE {[file |-> saved, doc |-> d, ok |-> Returned(TRUE)] : d \in Prefixes(new_doc)}

\* process_worker_result_long as the driver meets it.  fault: the write of
\* the CSV raises before anything is written.
process_worker_result_long(file, doc, source_name, data, t, fault) ==
    CHOOSE o \in LongOutcomes(file, doc, source_name, data, t,
                              IF fault THEN "save_refused" ELSE "none") : TRUE

(***************************************************************************)
(* The wide shape: one row per (date, source_name), one column per KPI.    *)
(***************************************************************************)
WideColumns == {"date", "timestamp", "source_name"}

\* The mappings a legacy worker may return.
WideData == {[open |-> PyInt(1)], [open |-> PyInt(2), closed |-> PyInt(1)]}

\* A snapshot CSV written by the wide version of the scraper.
WideLegacy ==
    CsvFile(WideColumns \cup {"open"},
            <<[date |-> 0, timestamp |-> 0, source_name |-> "smax", open |-> "1"]>>)

\* pd.read_csv of a CSV of any header: date and timestamp as they are, the
\* other cells with the dtype inferred for their column.
LoadAny(file) ==
    [i \in 1 .. Len(file.rows) |->
       [c \in file.header |->
          IF c \in {"date", "timestamp"} THEN file.rows[i][c]
          ELSE ReadCell(file.rows, c, file.rows[i][c])]]

\* df.to_csv(csv_path, index=False) for a frame with the given columns.
SaveAny(header, df) ==
    CsvFile(header,
            [i \in 1 .. Len(df) |->
               [c \in header |->
                  IF c \in {"date", "timestamp"} THEN df[i][c] ELSE WriteCell(df[i][c])]])

\* df.at[row_idx, key] = value: an int stored into a float64 column becomes
\* a float.
StoreCell(file, key, value) ==
    IF key \in file.header /\ ColumnKind(file.rows, key) = "float" /\ value.t = "int"
    THEN PyFloat(FloatRepr(ToString(value.i)))
    ELSE value

\* update_snapshot on the frame loaded from `file`: the columns of data are
\* added as None, then the row of (current_date, source_name) is
\* overwritten, or a row is appended.
update_snapshot(file, source_name, data, current_date, ts) ==
    LET header == file.header \cup DOMAIN data
        df == [i \in 1 .. Len(file.rows) |->
                 [c \in header |-> IF c \in file.header THEN LoadAny(file)[i][c] ELSE PyNone]]
        hits == {i \in 1 .. Len(df) :
                    df[i].date = current_date /\ PyEq(df[i].source_name, PyStr(source_name))}
        new_row == [c \in header |->
                      CASE c = "date" -> current_date
                        [] c = "timestamp" -> ts
                        [] c = "source_name" -> PyStr(source_name)
                        [] c \in DOMAIN data -> data[c]
                        [] OTHER -> NaN]
    IN  IF hits # {}
        THEN LET row_idx == CHOOSE i \in hits : \A j \in hits : i <= j
             IN  [df EXCEPT ![row_idx] =
                    [c \in header |->
                       CASE c = "timestamp" -> ts
                         [] c \in DOMAIN data -> StoreCell(file, c, data[c])
                         [] OTHER -> df[row_idx][c]]]
        ELSE Append(df, new_row)

\* process_worker_result on the snapshot CSV `file`: CORE_COLUMNS is not
\* defined in the module, so get_existing_columns raises NameError when the
\* CSV is absent or unreadable, and update_data_dictionary raises it for
\* the first new column, after save_csv.  update_snapshot raises KeyError
\* on a CSV without the columns date and source_name.
WideOutcomes(file, doc, source_name, data, t, fault) ==
    LET existing_cols == file.header
        saved == SaveAny(file.header \cup DOMAIN data,
                         update_snapshot(file, source_name, data, Today(t), t))
        new_cols == DOMAIN data \ existing_cols
    IN  IF \/ ~file.exists
           \/ file.header = {}
           \/ ~({"date", "source_name"} \subseteq file.header)
           \/ fault = "save_refused"
        THEN {[file |-> file, doc |-> doc, ok |-> Returned(TRUE)]}
        ELSE IF fault = "save_torn"
        THEN {[file |-> CsvFile(IF n = 0 THEN {} ELSE saved.header, SubSeq(saved.rows, 1, n - 1)),
               doc |-> doc, ok |-> Returned(TRUE)] : n \in 0 .. Len(saved.rows)}
        ELSE {[file |-> saved, doc |-> doc, ok |-> Returned(new_cols # {})]}

(***************************************************************************)
(* The ingestion adapter called on the snapshot CSV and the dictionary.    *)
(***************************************************************************)
MaxSnap == 2
MaxDoc == 2

\* An observation whose metric title is a number.
NumericTitleItem ==
    [metric_title |-> PyStr("1"), category |-> PyStr("a"), value |-> PyInt(2)]

\* The lists a worker may hand to process_worker_result_long.
LongData ==
    {<<i>> : i \in {j \in Items : DOMAIN j = {"metric_title", "value"}} \cup {NumericTitleItem}}
        \cup {<<[metric_title |-> PyStr("hist"), category |-> PyStr("a"), value |-> PyInt(1)],
                [metric_title |-> PyStr("CUIC_Calls"), category |-> PyStr("a"),
                 sub_category |-> PyStr("hist"), value |-> PyInt(2)]>>}

\* The snapshot is absent, unreadable or in the long format.
IsLong(file) == IF file.exists THEN file.header \subseteq LongColumns ELSE TRUE

call_process_worker_result_long(source_name, data, fault) ==
    /\ IsLong(files.snap)
    /\ IF files.snap.exists THEN Len(files.snap.rows) < MaxSnap ELSE TRUE
    /\ Len(files.doc) < MaxDoc
    /\ \E o \in LongOutcomes(files.snap, files.doc, source_name, data, now, fault) :
          /\ files' = [files EXCEPT !.snap = o.file, !.doc = o.doc]
          /\ last' = Call("process_worker_result_long",
                          [source_name |-> source_name, data |-> data, fault |-> fault],
                          now, o.ok)
    /\ again' = Repeats(last, last')
    /\ UNCHANGED <<now, schema, kpi_snapshots, scrape_log, config, srv, exp, run, retired, txn>>

call_process_worker_result(source_name, data, fault) ==
    /\ IF files.snap.exists THEN Len(files.snap.rows) < MaxSnap ELSE TRUE
    /\ \E o \in WideOutcomes(files.snap, files.doc, source_name, data, now, fault) :
          /\ files' = [files EXCEPT !.snap = o.file, !.doc = o.doc]
          /\ last' = Call("process_worker_result",
                          [source_name |-> source_name, data |-> data, fault |-> fault],
                          now, o.ok)
    /\ again' = Repeats(last, last')
    /\ UNCHANGED <<now, schema, kpi_snapshots, scrape_log, config, srv, exp, run, retired, txn>>

\* The documentation engine called with a set of metric titles.
call_update_data_dictionary_long(new_metrics, source_name) ==
    /\ Len(files.doc) < MaxDoc
    /\ files' = [files EXCEPT
                   !.doc = update_data_dictionary_long(@, new_metrics, source_name, now)]
    /\ last' = Call("update_data_dictionary_long",
                    [new |-> {x.s : x \in new_metrics}, source_name |-> source_name], now, "ok")
    /\ again' = Repeats(last, last')
    /\ UNCHANGED <<now, schema, kpi_snapshots, scrape_log, config, srv, exp, run, retired, txn>>

\* The documentation engine of the wide shape: with no new column it
\* returns at once; otherwise the test `col not in CORE_COLUMNS` of the
\* first column raises NameError, CORE_COLUMNS being defined nowhere, and
\* nothing is written.
call_update_data_dictionary(new_columns, source_name) ==
    /\ UNCHANGED files
    /\ last' = Call("update_data_dictionary",
                    [new |-> new_columns, source_name |-> source_name], now,
                    IF new_columns = {} THEN "ok" ELSE "raise")
    /\ again' = Repeats(last, last')
    /\ UNCHANGED <<now, schema, kpi_snapshots, scrape_log, config, srv, exp, run, retired, txn>>

\* cleanup_old_data of common_utils: the rows of the snapshot CSV dated
\* before the cutoff are dropped and the CSV is saved again; an empty frame
\* is left alone.
csv_cleanup_old_data(days_to_keep) ==
    /\ files.snap.exists
    /\ files.snap.header # {}
    /\ "date" \in files.snap.header
    /\ LET df == LoadAny(files.snap)
           kept == SelectSeq(df, LAMBDA r : r.date >= Today(now) - days_to_keep)
       IN  files' = IF df = <<>> THEN files
                    ELSE [files EXCEPT !.snap = SaveAny(files.snap.header, kept)]
    /\ last' = Call("csv_cleanup_old_data", [days_to_keep |-> days_to_keep], now, "ok")
    /\ again' = Repeats(last, last')
    /\ UNCHANGED <<now, schema, kpi_snapshots, scrape_log, config, srv, exp, run, retired, txn>>

(***************************************************************************)
(* The CSV export.                                                         *)
(***************************************************************************)
\* ORDER BY date, source, metric_title.
SortsBefore(a, b) ==
    \/ a.date < b.date
    \/ a.date = b.date /\ Rank(a.source) < Rank(b.source)
    \/ /\ a.date = b.date /\ a.source = b.source
       /\ Rank(a.metric_title) <= Rank(b.metric_title)

\* query_all: the orders in which SQLite may return the table; rows that tie
\* in the three columns come in either order.
query_all(table) ==
    LET n == Cardinality(Rows(table))
    IN  {q \in [1 .. n -> Rows(table)] :
           /\ \A i, j \in 1 .. n : i < j => q[i] # q[j] /\ SortsBefore(q[i], q[j])}

\* WHERE date BETWEEN ? AND ? with the end bound left out of the range.
BetweenExclusive(date, start_date, end_date) == start_date <= date /\ date < end_date

\* WHERE date BETWEEN ? AND ?.
Between(date, start_date, end_date) == start_date <= date /\ date <= end_date

\* query_by_date: end_date None stands for start_date; the rows of the range
\* in the orders ORDER BY date, source, metric_title allows.
query_by_date(table, start_date, end_date) ==
    LET last_date == IF end_date = NoDate THEN start_date ELSE end_date
        hits == {r \in Rows(table) : Between(r.date, start_date, last_date)}
        n == Cardinality(hits)
    IN  {q \in [1 .. n -> hits] :
           /\ \A i, j \in 1 .. n : i < j => q[i] # q[j] /\ SortsBefore(q[i], q[j])}

\* export_csv to the local path: to_csv into a temporary file, os.replace.
\* fault: the write raises and the destination is left as it was.
export_csv(file, df, fault) == IF fault THEN file ELSE CsvFile(LongColumns, df)

(***************************************************************************)
(* The operations of core/database.py.                                     *)
(***************************************************************************)
init_db ==
    /\ schema' = TRUE
    /\ last' = Call("init_db", <<>>, now, "ok")
    /\ again' = Repeats(last, last')
    /\ UNCHANGED <<now, kpi_snapshots, scrape_log, files, config, srv, exp, run, retired, txn>>

upsert_metrics(source_name, data, current_date) ==
    LET date == IF current_date = NoDate THEN Today(now) ELSE current_date
        ts == now
        rows == [i \in 1 .. Len(data) |-> ParamRow(source_name, data[i], date, ts)]
        res == ExecuteMany(kpi_snapshots, rows)
        done == data = <<>> \/ (schema /\ res.ok)
        call == Call("upsert_metrics",
                     [source |-> source_name, data |-> data, date |-> date],
                     ts, IF done THEN "ok" ELSE "raise")
    IN  /\ kpi_snapshots' =
              IF data = <<>> \/ ~schema THEN kpi_snapshots
              ELSE Committed(kpi_snapshots, res)
        /\ BagCardinality(kpi_snapshots') <= MaxRows
        /\ last' = call
        /\ again' = Repeats(last, call)
        /\ UNCHANGED <<now, schema, scrape_log, files, config, srv, exp, run, retired, txn>>

\* DELETE ... WHERE date <= cutoff.
ExpiredInclusive(table, cutoff) == {r \in Rows(table) : r.date <= cutoff}

\* The rows DELETE FROM kpi_snapshots WHERE date < cutoff removes.
Expired(table, cutoff) == {r \in Rows(table) : r.date < cutoff}

RECURSIVE Without(_, _)
Without(table, rows) ==
    IF rows = {} THEN table
    ELSE LET r == CHOOSE x \in rows : TRUE
         IN  Without(table (-) [x \in {r} |-> CopiesIn(r, table)], rows \ {r})

\* What cleanup_old_data(days_to_keep) does to the table at time t.
Cleanup(table, days_to_keep, t) ==
    LET cutoff == Today(t) - days_to_keep
        gone == Expired(table, cutoff)
        kept == Without(table, gone)
    IN  [table |-> kept, gone |-> gone,
         deleted |-> BagCardinality(table) - BagCardinality(kept)]

cleanup_old_data(days_to_keep) ==
    LET done == Cleanup(kpi_snapshots, days_to_keep, now)
        call == Call("cleanup_old_data", [days |-> days_to_keep], now,
                     IF schema THEN done.deleted ELSE -1)
    IN  /\ kpi_snapshots' = IF schema THEN done.table ELSE kpi_snapshots
        /\ last' = call
        /\ again' = Repeats(last, call)
        /\ UNCHANGED <<now, schema, scrape_log, files, config, srv, exp, run, retired, txn>>

\* What an exception leaves in `ret` of a call that returns a count.
Raised == -1

\* pd.read_csv raises EmptyDataError on a file of zero bytes: no columns to parse.
MigrateRaises(file) == file.exists /\ file.header = {}

RECURSIVE GoodRows(_, _, _)
\* The rows whose _UPSERT_SQL ran, in file order; the rows numbered in `bad`
\* raised and were passed over by the inner except clause.  i is the number
\* of the first row of `rows` in the file.
GoodRows(rows, bad, i) ==
    IF rows = <<>> THEN <<>>
    ELSE (IF i \in bad THEN <<>> ELSE <<Head(rows)>>) \o GoodRows(Tail(rows), bad, i + 1)

\* What migrate_csv_to_db does with a file when the statements of the rows in
\* `bad` fail: the table, whether init_db ran, the count it returns.
MigrateWith(table, file, bad) ==
    IF MigrateRaises(file)
    THEN [table |-> table, init |-> FALSE, imported |-> Raised]
    ELSE IF MigrateSkips(file)
    THEN [table |-> table, init |-> FALSE, imported |-> 0]
    ELSE LET good == GoodRows(MigrateRows(file), bad, 1)
         IN  [table |-> UpsertAll(table, good), init |-> TRUE, imported |-> Len(good)]

\* migrate_csv_to_db with every statement succeeding.
Migrate(table, file) == MigrateWith(table, file, {})

\* The file migrate_csv_to_db reads for a path; its default is the exported CSV.
FileAt(csv_path) == IF csv_path = "output" THEN files.out ELSE InputFiles[csv_path]

migrate_csv_to_db(csv_path, bad) ==
    LET done == MigrateWith(kpi_snapshots, FileAt(csv_path), bad)
        call == Call("migrate_csv_to_db", [path |-> csv_path, bad |-> bad], now,
                     done.imported)
    IN  /\ schema' = (schema \/ done.init)
        /\ kpi_snapshots' = done.table
        /\ BagCardinality(kpi_snapshots') <= MaxRows
        /\ last' = call
        /\ again' = Repeats(last, call)
        /\ UNCHANGED <<now, scrape_log, files, config, srv, exp, run, retired, txn>>

(***************************************************************************)
(* upsert_metrics statement by statement, as another connection sees it.   *)
(* sqlite3 opens a transaction before the first INSERT of executemany; a   *)
(* connection in WAL mode reads the last committed table.                  *)
(***************************************************************************)
NoTxn == [pc |-> "idle"]

\* The committed table after one statement under autocommit.
AfterStatementAutocommit(committed, working) == working

\* The committed table after one statement of an open transaction.
AfterStatement(committed, working) == committed

\* upsert_metrics up to _get_conn(): the rows are built, the clock is read.
upsert_begin(source_name, data, current_date) ==
    LET date == IF current_date = NoDate THEN Today(now) ELSE current_date
        args == [source |-> source_name, data |-> data, date |-> date]
    IN  /\ txn.pc = "idle"
        /\ IF data = <<>>
           THEN /\ last' = Call("upsert_metrics", args, now, "ok")
                /\ again' = Repeats(last, last')
                /\ UNCHANGED txn
           ELSE /\ txn' = [pc |-> "exec", args |-> args, ts |-> now,
                           params |-> [i \in 1 .. Len(data) |->
                                          ParamRow(source_name, data[i], date, now)],
                           done |-> 0, base |-> kpi_snapshots, work |-> kpi_snapshots]
                /\ UNCHANGED <<last, again>>
        /\ UNCHANGED <<now, schema, kpi_snapshots, scrape_log, files, config, srv, exp, run, retired>>

\* One statement of executemany.  It raises when the table is missing, when a
\* parameter does not bind, or when the disk fails; the exception leaves
\* through finally: conn.close(), with no commit.
upsert_execute(fault) ==
    /\ txn.pc = "exec"
    /\ txn.done < Len(txn.params)
    /\ LET p == txn.params[txn.done + 1]
       IN  IF schema /\ Binds(p) /\ ~fault
           THEN /\ txn' = [txn EXCEPT !.done = @ + 1, !.work = UpsertRow(@, TextRow(p))]
                /\ kpi_snapshots' = AfterStatement(kpi_snapshots, txn'.work)
                /\ BagCardinality(txn'.work) <= MaxRows
                /\ UNCHANGED <<last, again>>
           ELSE /\ txn' = NoTxn
                /\ kpi_snapshots' = kpi_snapshots
                /\ last' = Call("upsert_metrics", txn.args, txn.ts, "raise")
                /\ again' = Repeats(last, last')
    /\ UNCHANGED <<now, schema, scrape_log, files, config, srv, exp, run, retired>>

\* conn.commit() after the last statement, then conn.close().
upsert_commit ==
    /\ txn.pc = "exec"
    /\ txn.done = Len(txn.params)
    /\ kpi_snapshots' = txn.work
    /\ txn' = NoTxn
    /\ last' = Call("upsert_metrics", txn.args, txn.ts, "ok")
    /\ again' = Repeats(last, last')
    /\ UNCHANGED <<now, schema, scrape_log, files, config, srv, exp, run, retired>>

(***************************************************************************)
(* export_csv step by step, as a reader of the destination files sees it:  *)
(* query_all, then for the local path and, when configured, the shared     *)
(* path: to_csv into <path>.tmp, os.replace(<path>.tmp, <path>).           *)
(***************************************************************************)
\* df.to_csv: the file of a DataFrame read from the table.
Snapshot(df) == CsvFile(LongColumns, df)

WriteFaults == {"none", "torn", "refused"}

\* The temporary file of the path being written.
TmpOf(to) == IF to = "out" THEN "tmp" ELSE "shared_tmp"

\* A failure that leaves export_csv whichever path was being written.
ExportRaises ==
    /\ exp' = NoExport
    /\ last' = Call("export_csv", <<>>, now, "raise")
    /\ again' = Repeats(last, last')

\* A failure while the path exp.to is written: for the local path the
\* exception leaves export_csv, for the shared path it is logged.
ExportFails ==
    /\ exp' = NoExport
    /\ last' = Call("export_csv", <<>>, now, IF exp.to = "out" THEN "raise" ELSE "ok")
    /\ again' = Repeats(last, last')

\* df = query_all(): it raises when the table is missing.
export_begin ==
    /\ exp.pc = "idle"
    /\ IF schema
       THEN /\ \E df \in query_all(kpi_snapshots) :
                  exp' = [pc |-> "write", to |-> "out", df |-> df, before |-> files]
            /\ UNCHANGED <<last, again>>
       ELSE /\ last' = Call("export_csv", <<>>, now, "raise")
            /\ again' = Repeats(last, last')
            /\ UNCHANGED exp
    /\ UNCHANGED <<now, schema, kpi_snapshots, scrape_log, files, config, srv, run, retired, txn>>

\* The destination after to_csv wrote the file named `written`, had to_csv
\* written to the destination itself.
WriteInPlace(dest, written) == written

\* The destination after to_csv wrote its temporary file.
WriteToTmp(dest, written) == dest

\* _atomic_write_csv up to os.replace: df.to_csv(tmp).  For the shared path
\* a refusal is also os.makedirs failing.
export_write(fault) ==
    /\ exp.pc = "write"
    /\ \E written \in IF fault = "none" THEN {Snapshot(exp.df)}
                      ELSE IF fault = "torn" THEN Torn(exp.df)
                      ELSE {files[TmpOf(exp.to)]} :
          files' = [files EXCEPT ![TmpOf(exp.to)] = written,
                                 ![exp.to] = WriteToTmp(@, written)]
    /\ IF fault = "none"
       THEN /\ exp' = [exp EXCEPT !.pc = "replace"]
            /\ UNCHANGED <<last, again>>
       ELSE ExportFails
    /\ UNCHANGED <<now, schema, kpi_snapshots, scrape_log, config, srv, run, retired, txn>>

\* os.replace(tmp, path), then the shared path if one is configured.
export_replace(fault) ==
    /\ exp.pc = "replace"
    /\ IF fault
       THEN /\ UNCHANGED files
            /\ ExportFails
       ELSE /\ files' = [files EXCEPT ![exp.to] = files[TmpOf(exp.to)],
                                      ![TmpOf(exp.to)] = NoFile]
            /\ IF exp.to = "out" /\ config.shared_drive_csv
               THEN /\ exp' = [exp EXCEPT !.pc = "write", !.to = "shared"]
                    /\ UNCHANGED <<last, again>>
               ELSE /\ exp' = NoExport
                    /\ last' = Call("export_csv", <<>>, now, "ok")
                    /\ again' = Repeats(last, last')
    /\ UNCHANGED <<now, schema, kpi_snapshots, scrape_log, config, srv, run, retired, txn>>

(***************************************************************************)
(* The scrape log.                                                         *)
(***************************************************************************)
MaxLog == 2

Statuses == {"success", "error", "no_data", "skipped"}

\* The report labels of the configuration, also asked for as metric titles.
Labels == {"hist", "CUIC_Calls"}

\* The log had the INSERT been an INSERT OR REPLACE keyed by (source,
\* report_label).
LoggedReplacing(log, source, report_label, status, row_count, t) ==
    IF schema
    THEN Append(SelectSeq(log, LAMBDA e : <<e.source, e.report_label>> # <<source, report_label>>),
                [id |-> Len(log) + 1, timestamp |-> t, source |-> source,
                 report_label |-> report_label, status |-> status,
                 row_count |-> row_count, duration_s |-> 0, message |-> ""])
    ELSE log

\* INSERT INTO scrape_log: id is AUTOINCREMENT, the entries are never deleted.
\* A failure (no table yet) is swallowed by the except clause.
Logged(log, source, report_label, status, row_count, t) ==
    IF schema
    THEN Append(log,
                [id |-> Len(log) + 1, timestamp |-> t, source |-> source,
                 report_label |-> report_label, status |-> status,
                 row_count |-> row_count, duration_s |-> 0, message |-> ""])
    ELSE log

\* What can go wrong in log_scrape: the INSERT or the commit raises inside
\* the try block ("insert"), or _get_conn() raises on the line before the
\* try block ("connect": sqlite3.connect or a PRAGMA fails).
LogFaults == {"none", "insert", "connect"}

log_scrape(source, report_label, status, row_count, fault) ==
    /\ Len(scrape_log) < MaxLog
    /\ scrape_log' = IF fault = "none"
                     THEN Logged(scrape_log, source, report_label, status, row_count, now)
                     ELSE scrape_log
    /\ last' = Call("log_scrape",
                    [source |-> source, report_label |-> report_label, status |-> status],
                    now, IF fault = "connect" THEN "raise" ELSE "ok")
    /\ again' = Repeats(last, last')
    /\ UNCHANGED <<now, schema, kpi_snapshots, files, config, srv, exp, run, retired, txn>>

\* The entries of a set in ORDER BY timestamp DESC; SQLite may give entries
\* of equal timestamp in either order.
NewestFirst(entries) ==
    {q \in [1 .. Cardinality(entries) -> entries] :
        /\ \A i, j \in DOMAIN q : i # j => q[i] # q[j]
        /\ \A i, j \in DOMAIN q : i < j => q[i].timestamp >= q[j].timestamp}

Entries(log) == {log[i] : i \in DOMAIN log}

\* The result had the inner query taken MAX(timestamp) per pair.
LatestByTimestamp(log) ==
    NewestFirst({e \in Entries(log) :
                    \A o \in Entries(log) :
                        <<o.source, o.report_label>> = <<e.source, e.report_label>>
                            => o.timestamp <= e.timestamp})

\* SELECT s.* FROM scrape_log s INNER JOIN (SELECT source, report_label,
\* MAX(id) ... GROUP BY source, report_label) ON s.id = max_id ORDER BY
\* s.timestamp DESC; without the table the except clause returns [].
LatestStatus(log) ==
    NewestFirst({e \in Entries(log) :
                    \A o \in Entries(log) :
                        <<o.source, o.report_label>> = <<e.source, e.report_label>>
                            => o.id <= e.id})

get_latest_scrape_status ==
    /\ \E res \in LatestStatus(scrape_log) :
          last' = Call("get_latest_scrape_status", <<>>, now, res)
    /\ again' = Repeats(last, last')
    /\ UNCHANGED <<now, schema, kpi_snapshots, scrape_log, files, config, srv, exp, run, retired, txn>>

\* TRUE when some entry for (source, report_label) was a success.
HasHistoricalDataAnySuccess(source, metric_title) ==
    /\ schema
    /\ \E r \in Rows(kpi_snapshots) : r.source = source /\ r.metric_title = metric_title
    /\ \E i \in 1 .. Len(scrape_log) :
          /\ scrape_log[i].source = source
          /\ scrape_log[i].report_label = metric_title
          /\ scrape_log[i].status = "success"

\* The value has_historical_data returns.
HasHistoricalData(source, metric_title) ==
    IF ~schema THEN FALSE
    ELSE LET data_count ==
                 BagCardinality([r \in {x \in Rows(kpi_snapshots) :
                                          x.source = source /\ x.metric_title = metric_title}
                                   |-> CopiesIn(r, kpi_snapshots)])
             found == {i \in 1 .. Len(scrape_log) :
                         /\ scrape_log[i].source = source
                         /\ scrape_log[i].report_label = metric_title}
         IN  IF data_count = 0 THEN FALSE
             ELSE IF found = {} THEN FALSE
             ELSE LET row == scrape_log[CHOOSE i \in found : \A j \in found : j <= i]
                  IN  row.status = "success"

has_historical_data(source, metric_title) ==
    /\ last' = Call("has_historical_data",
                    [source |-> source, metric_title |-> metric_title],
                    now, HasHistoricalData(source, metric_title))
    /\ again' = Repeats(last, last')
    /\ UNCHANGED <<now, schema, kpi_snapshots, scrape_log, files, config, srv, exp, run, retired, txn>>

(***************************************************************************)
(* The orchestrator: run_all_workers, one step per phase, and the workers  *)
(* it runs.                                                                *)
(***************************************************************************)
MaxRuns == 3

\* discover_workers
Workers == <<"cuic", "smax">>

\* The enabled reports of the CUIC worker's configuration.
Reports == <<[label |-> "hist", data_type |-> "historical"]>>

\* What scrape_data returns for a report with one data row and one value column.
ScrapedData(report_label) ==
    <<[metric_title |-> PyStr("CUIC_Calls"), category |-> PyStr("a"),
       sub_category |-> PyStr(report_label), value |-> PyStr("2")]>>

\* What the SMAX worker returns: the total of one report.
SmaxData ==
    <<[metric_title |-> PyStr("Tickets"), category |-> PyStr("total"),
       sub_category |-> PyStr(""), value |-> PyInt(1)]>>

\* The keys of the observations a worker returned today.
ObservedKeys(source_name, data, t) ==
    {<<Today(t), source_name, Str(Get(data[i], "metric_title", PyStr(""))),
       Str(Get(data[i], "category", PyStr(""))),
       Str(Get(data[i], "sub_category", PyStr("")))>> : i \in 1 .. Len(data)}

\* init_db, then the summary is created.
run_start ==
    /\ run.pc = "idle"
    /\ run.runs < MaxRuns
    /\ schema' = TRUE
    /\ run' = [pc |-> "migrate", runs |-> run.runs + 1, w |-> 1, r |-> 0,
               all_data |-> <<>>, workers_succeeded |-> 0, workers_failed |-> 0,
               results |-> <<>>]
    /\ UNCHANGED <<now, kpi_snapshots, scrape_log, files, config, srv, exp, retired, txn, last, again>>

\* migrate_csv_to_db() on the exported CSV, at the start of every run.
run_migrate ==
    /\ run.pc = "migrate"
    /\ kpi_snapshots' = Migrate(kpi_snapshots, files.out).table
    /\ run' = [run EXCEPT !.pc = "worker"]
    /\ UNCHANGED <<now, schema, scrape_log, files, config, srv, exp, retired, txn, last, again>>

\* The order of the phases of run_all_workers after the workers, had the
\* retention cleanup been placed before the export.
PhaseAfterCleanupFirst(phase) ==
    CASE phase = "worker" -> "cleanup"
      [] phase = "cleanup" -> "export"
      [] OTHER -> "idle"

\* The order of the phases of run_all_workers once a worker succeeded: the
\* loop over the workers, export_csv, cleanup_old_data, the summary.
PhaseAfter(phase) ==
    CASE phase = "worker" -> "export"
      [] phase = "export" -> "cleanup"
      [] OTHER -> "idle"

\* The statuses the summary records for a worker that did not succeed.
FailedStatuses == {"load_failed", "save_failed", "no_data", "error"}

\* Where the loop stands after a worker, had a failed worker ended it.
NextPcStopping(status) ==
    IF run.w = Len(Workers) \/ status \in FailedStatuses THEN PhaseAfter("worker") ELSE "worker"

\* Where the loop over worker_paths stands after a worker: every branch of
\* its body, `continue` and the catch-all included, goes on with the next
\* path.
NextPc(status) == IF run.w = Len(Workers) THEN PhaseAfter("worker") ELSE "worker"

\* summary['results'][worker_name] and the two counters after a worker.
Recorded(status, data) ==
    [run EXCEPT
       !.pc = NextPc(status),
       !.w = @ + 1, !.r = 0, !.all_data = <<>>,
       !.workers_succeeded = IF status = "success" THEN @ + 1 ELSE @,
       !.workers_failed = IF status \in FailedStatuses THEN @ + 1 ELSE @,
       !.results = Append(@, [worker |-> Workers[run.w], status |-> status,
                              data |-> IF status = "success" THEN data ELSE <<>>])]

\* A worker that is not executed: load_worker_module returned None, the
\* settings disable it, or an exception reached the catch-all of the loop.
worker_skip(status) ==
    /\ run.pc = "worker"
    /\ run' = Recorded(status, <<>>)
    /\ UNCHANGED <<now, schema, kpi_snapshots, scrape_log, files, config, srv, exp, retired, txn,
                   last, again>>

\* The driver after execute_worker returned (source_name, data, success):
\* the data is handed to process_worker_result_long and the summary updated.
worker_done(source_name, data, fault) ==
    LET mine == IF config.same_dir THEN files.out ELSE files.snap
        saved == process_worker_result_long(mine, files.doc, source_name, data, now, fault)
        status == IF data = <<>> THEN "no_data"
                  ELSE IF saved.ok THEN "success" ELSE "save_failed"
    IN  /\ files' =
              IF data = <<>> THEN files
              ELSE IF config.same_dir
                   THEN [files EXCEPT !.out = saved.file, !.doc = saved.doc]
                   ELSE [files EXCEPT !.snap = saved.file, !.doc = saved.doc]
        /\ run' = Recorded(status, data)
        /\ retired' = IF status = "success"
                      THEN retired \ ObservedKeys(source_name, data, now)
                      ELSE retired

\* Worker.run of the CUIC worker up to the login in scrape: with no
\* credentials, no browser or a failed login it returns [].
cuic_login(ok) ==
    /\ run.pc = "worker"
    /\ Workers[run.w] = "cuic"
    /\ IF ok
       THEN /\ run' = [run EXCEPT !.pc = "scrape", !.r = 1, !.all_data = <<>>]
            /\ UNCHANGED <<files, retired>>
       ELSE worker_done("cuic", <<>>, FALSE)
    /\ UNCHANGED <<now, schema, kpi_snapshots, scrape_log, config, srv, exp, txn, last, again>>

\* One pass of the loop of Worker.scrape over the enabled reports.  outcome
\* is what the browser session gives when the report is scraped, fault what
\* happens in the log_scrape calls of the pass.  When log_scrape raises, in
\* the skipped branch or again in the except clause, the exception leaves
\* scrape, and Worker.run returns [] in place of all_data.
scrape_report(reports, outcome, fault) ==
    /\ run.pc = "scrape"
    /\ run.r <= Len(reports)
    /\ LET report == reports[run.r]
           skip == /\ report.data_type = "historical"
                   /\ HasHistoricalData("cuic", report.label)
           data == ScrapedData(report.label)
           status == IF skip THEN "skipped" ELSE outcome
       IN  /\ scrape_log' =
                 IF fault = "none"
                 THEN Logged(scrape_log, "cuic", report.label, status,
                             IF status = "success" THEN Len(data) ELSE 0, now)
                 ELSE scrape_log
           /\ IF fault = "connect"
              THEN worker_done("cuic", <<>>, FALSE)
              ELSE /\ run' = [run EXCEPT
                                !.r = @ + 1,
                                !.all_data = IF status = "success" THEN @ \o data ELSE @]
                   /\ UNCHANGED <<files, retired>>
    /\ UNCHANGED <<now, schema, kpi_snapshots, config, srv, exp, txn, last, again>>

cuic_report(outcome, fault) == scrape_report(Reports, outcome, fault)

\* The end of Worker.scrape and Worker.run.  fault: the logout or the
\* teardown in the finally clause of run raises, and no data reaches the
\* driver in place of all_data.
scrape_return(reports, fault) ==
    /\ run.pc = "scrape"
    /\ run.r > Len(reports)
    /\ \E save_fault \in BOOLEAN :
          worker_done("cuic", IF fault THEN <<>> ELSE run.all_data, save_fault)
    /\ UNCHANGED <<now, schema, kpi_snapshots, scrape_log, config, srv, exp, txn, last, again>>

cuic_return(fault) == scrape_return(Reports, fault)

\* The SMAX worker, from load to the driver's bookkeeping.
smax_run(data) ==
    /\ run.pc = "worker"
    /\ Workers[run.w] = "smax"
    /\ \E save_fault \in BOOLEAN : worker_done("smax", data, save_fault)
    /\ UNCHANGED <<now, schema, kpi_snapshots, scrape_log, config, srv, exp, txn, last, again>>

\* export_csv(), only when a worker succeeded; its exception is logged.
run_export(fault) ==
    /\ run.pc = "export"
    /\ IF run.workers_succeeded > 0
       THEN /\ \E df \in query_all(kpi_snapshots) :
                  files' = [files EXCEPT !.out = export_csv(@, df, fault)]
            /\ run' = [run EXCEPT !.pc = PhaseAfter("export")]
       ELSE /\ run' = [run EXCEPT !.pc = "idle"]
            /\ UNCHANGED files
    /\ UNCHANGED <<now, schema, kpi_snapshots, scrape_log, config, srv, exp, retired, txn, last, again>>

\* cleanup_old_data() with the retention of the settings, then the summary
\* is returned.
run_cleanup ==
    /\ run.pc = "cleanup"
    /\ LET done == Cleanup(kpi_snapshots, config.data_retention_days, now)
       IN  /\ kpi_snapshots' = done.table
           /\ retired' = retired \cup {Key(r) : r \in done.gone}
    /\ run' = [run EXCEPT !.pc = PhaseAfter("cleanup")]
    /\ UNCHANGED <<now, schema, scrape_log, files, config, srv, exp, txn, last, again>>

(***************************************************************************)
(* The settings server: the two discovery endpoints of SettingsHandler     *)
(* and the flag _discovery_running they share.                             *)
(***************************************************************************)
MaxReq == 3

Requests == 1 .. MaxReq

DiscoverPaths == {"/api/discover-filters", "/api/discover-smax-properties"}

\* A request that was not sent yet.
NoRequest == [pc |-> "new", path |-> "", raised |-> FALSE, status |-> 0]

\* _discovery_running = False; threaded tells whether the server that owns
\* the handler runs each request in a thread of its own (main() builds an
\* HTTPServer, which handles one request at a time).
NoServer == [threaded |-> FALSE, discovery_running |-> FALSE, req |-> [r \in Requests |-> NoRequest]]

\* The requests whose handler is running.
Handling == {r \in Requests : srv.req[r].pc \notin {"new", "done"}}

\* The requests whose discovery is executing.
Discovering == {r \in Requests : srv.req[r].pc = "discover"}

\* do_POST and the first lines of the handler: Content-Length and the body
\* are read and the body parsed.  body "bad_json" raises JSONDecodeError
\* and is answered 400; "bad_length" raises another exception (int() of
\* the header, the read or the decoding of the body).
do_POST(r, path, body) ==
    /\ srv.req[r].pc = "new"
    /\ srv.threaded \/ Handling = {}
    /\ srv' = [srv EXCEPT !.req[r] =
                 CASE body = "ok" -> [@ EXCEPT !.pc = "check", !.path = path]
                   [] body = "bad_json" -> [@ EXCEPT !.pc = "done", !.path = path, !.status = 400]
                   [] OTHER -> [@ EXCEPT !.pc = "except", !.path = path, !.raised = TRUE]]
    /\ UNCHANGED <<now, schema, kpi_snapshots, scrape_log, files, config, exp, run, retired, txn,
                   last, again>>

\* with _discovery_lock: a running discovery is answered 409, otherwise the
\* flag is set.  sent = FALSE: _send_json raises while the 409 is written.
discover_check(r, sent) ==
    /\ srv.req[r].pc = "check"
    /\ srv' = IF srv.discovery_running
              THEN [srv EXCEPT !.req[r] =
                      IF sent THEN [@ EXCEPT !.pc = "done", !.status = 409]
                      ELSE [@ EXCEPT !.pc = "except", !.raised = TRUE]]
              ELSE [srv EXCEPT !.discovery_running = TRUE, !.req[r].pc = "discover"]
    /\ UNCHANGED <<now, schema, kpi_snapshots, scrape_log, files, config, exp, run, retired, txn,
                   last, again>>

\* The discovery and the sending of its result come to an end; ok = FALSE:
\* one of them raised.
discover_run(r, ok) ==
    /\ srv.req[r].pc = "discover"
    /\ srv' = [srv EXCEPT !.req[r] = [@ EXCEPT !.pc = "finally", !.raised = ~ok,
                                               !.status = IF ok THEN 200 ELSE 0]]
    /\ UNCHANGED <<now, schema, kpi_snapshots, scrape_log, files, config, exp, run, retired, txn,
                   last, again>>

\* finally: with _discovery_lock: _discovery_running = False.
discover_finally(r) ==
    /\ srv.req[r].pc = "finally"
    /\ srv' = [srv EXCEPT !.discovery_running = FALSE,
                          !.req[r].pc = IF srv.req[r].raised THEN "except" ELSE "done"]
    /\ UNCHANGED <<now, schema, kpi_snapshots, scrape_log, files, config, exp, run, retired, txn,
                   last, again>>

\* except Exception: with _discovery_lock: _discovery_running = False, then
\* the answer 500.
discover_except(r) ==
    /\ srv.req[r].pc = "except"
    /\ srv' = [srv EXCEPT !.discovery_running = FALSE,
                          !.req[r] = [@ EXCEPT !.pc = "done", !.status = 500]]
    /\ UNCHANGED <<now, schema, kpi_snapshots, scrape_log, files, config, exp, run, retired, txn,
                   last, again>>

TypeOK ==
    /\ now \in 0 .. MaxNow
    /\ schema \in BOOLEAN
    /\ IsABag(kpi_snapshots)
    /\ \A r \in Rows(kpi_snapshots) : DOMAIN r = LongColumns
    /\ \A i \in 1 .. Len(scrape_log) :
          scrape_log[i].id = i /\ scrape_log[i].status \in Statuses
    /\ files.out.exists => files.out.header \subseteq LongColumns
    /\ config.same_dir \in BOOLEAN
    /\ config.data_retention_days \in 0 .. MaxKeep
    /\ run.pc \in {"idle", "migrate", "worker", "scrape", "export", "cleanup"}
    /\ run.runs \in 0 .. MaxRuns
    /\ txn.pc \in {"idle", "exec"}
    /\ exp.pc \in {"idle", "write", "replace"}
    /\ config.shared_drive_csv \in BOOLEAN
    /\ again \in BOOLEAN

Tick ==
    /\ now < MaxNow
    /\ now' = now + 1
    /\ UNCHANGED <<schema, kpi_snapshots, scrape_log, files, config, srv, exp, run, retired, txn,
                   last, again>>

Init ==
    /\ now = 0
    /\ schema = FALSE
    /\ kpi_snapshots = EmptyBag
    /\ scrape_log = <<>>
    /\ files = NoFiles
    /\ config = DefaultSettings
    /\ exp = NoExport
    /\ run = NoRun
    /\ retired = {}
    /\ txn = NoTxn
    /\ srv = NoServer
    /\ last = NoCall
    /\ again = FALSE

\* query_by_date(start_date, end_date) and query_all() as a caller sees
\* them: the frame returned, or the exception of a store without its table.
call_query_by_date(start_date, end_date) ==
    /\ \E df \in IF schema THEN query_by_date(kpi_snapshots, start_date, end_date) ELSE {<<>>} :
          last' = Call("query_by_date", [start_date |-> start_date, end_date |-> end_date],
                       now, [ok |-> schema, df |-> df])
    /\ again' = Repeats(last, last')
    /\ UNCHANGED <<now, schema, kpi_snapshots, scrape_log, files, config, srv, exp, run, retired, txn>>

call_query_all ==
    /\ \E df \in IF schema THEN query_all(kpi_snapshots) ELSE {<<>>} :
          last' = Call("query_all", <<>>, now, [ok |-> schema, df |-> df])
    /\ again' = Repeats(last, last')
    /\ UNCHANGED <<now, schema, kpi_snapshots, scrape_log, files, config, srv, exp, run, retired, txn>>

Next ==
    \/ init_db
    \/ \E d \in Batches, c \in Days \cup {NoDate} : upsert_metrics("cuic", d, c)
    \/ \E n \in 0 .. MaxKeep : cleanup_old_data(n)
    \/ \E p \in Paths : migrate_csv_to_db(p, {})
    \/ Tick

Spec == Init /\ [][Next]_vars

\* The writer inside upsert_metrics, the clock running beside it.
NextTxn ==
    \/ txn.pc = "idle" /\ init_db
    \/ \E d \in Batches : upsert_begin("cuic", d, NoDate)
    \/ \E fault \in BOOLEAN : upsert_execute(fault)
    \/ upsert_commit
    \/ Tick

SpecTxn == Init /\ [][NextTxn]_vars

\* The store and the scrape log as has_historical_data reads them.
NextHist ==
    \/ init_db
    \/ \E s \in Sources, d \in {b \in Batches : Len(b) = 1} : upsert_metrics(s, d, NoDate)
    \/ migrate_csv_to_db("old", {})
    \/ \E s \in Sources, st \in Statuses : log_scrape(s, "hist", st, 0, "none")
    \/ \E s \in Sources, t \in Labels : has_historical_data(s, t)

SpecHist == Init /\ [][NextHist]_vars

\* A machine with or without a shared drive path in its settings.
InitExp ==
    /\ now = 0
    /\ schema = FALSE
    /\ kpi_snapshots = EmptyBag
    /\ scrape_log = <<>>
    /\ files = NoFiles
    /\ config \in {DefaultSettings, [DefaultSettings EXCEPT !.shared_drive_csv = TRUE]}
    /\ exp = NoExport
    /\ run = NoRun
    /\ retired = {}
    /\ txn = NoTxn
    /\ srv = NoServer
    /\ last = NoCall
    /\ again = FALSE

\* A row of a CUIC report whose first column holds a number.
NumberedItem ==
    [metric_title |-> PyStr("CUIC_Calls"), category |-> PyStr("1"),
     sub_category |-> PyStr("hist"), value |-> PyStr("2")]

ExpItems == {i \in Items : "category" \notin DOMAIN i} \cup {NumberedItem}

\* export_csv beside the writers of the store.
NextExp ==
    \/ exp.pc = "idle" /\ init_db
    \/ \E i \in ExpItems : exp.pc = "idle" /\ upsert_metrics("cuic", <<i>>, NoDate)
    \/ exp.pc = "idle" /\ migrate_csv_to_db("dup", {})
    \/ export_begin
    \/ \E fault \in WriteFaults : export_write(fault)
    \/ \E fault \in BOOLEAN : export_replace(fault)

SpecExp == InitExp /\ [][NextExp]_vars

\* The scrape log beside every other operation on the database file.
NextLog ==
    \/ exp.pc = "idle" /\ init_db
    \/ \E l \in Labels, st \in {"success", "error"}, fault \in LogFaults :
          exp.pc = "idle" /\ log_scrape("cuic", l, st, 0, fault)
    \/ exp.pc = "idle"
          /\ upsert_metrics("cuic", <<[metric_title |-> PyStr("hist"), value |-> PyInt(1)]>>, NoDate)
    \/ exp.pc = "idle" /\ migrate_csv_to_db("old", {})
    \/ exp.pc = "idle" /\ cleanup_old_data(0)
    \/ exp.pc = "idle" /\ get_latest_scrape_status
    \/ export_begin
    \/ export_write("none")
    \/ export_replace(FALSE)
    \/ Tick

SpecLog == Init /\ [][NextLog]_vars

\* One machine, its runs of the driver with every outcome a worker can have.
InitPipe ==
    /\ now = 0
    /\ schema = FALSE
    /\ kpi_snapshots = EmptyBag
    /\ scrape_log = <<>>
    /\ files \in {NoFiles, [NoFiles EXCEPT !.out = InputFiles.old]}
    /\ config \in [same_dir : BOOLEAN, data_retention_days : {0}, shared_drive_csv : {FALSE}]
    /\ exp = NoExport
    /\ run = NoRun
    /\ retired = {}
    /\ txn = NoTxn
    /\ srv = NoServer
    /\ last = NoCall
    /\ again = FALSE

NextPipe ==
    \/ run_start
    \/ run_migrate
    \/ \E status \in {"load_failed", "disabled", "error"} : worker_skip(status)
    \/ \E ok \in BOOLEAN : cuic_login(ok)
    \/ \E outcome \in {"success", "error"}, fault \in {"none", "connect"} :
          cuic_report(outcome, fault)
    \/ \E fault \in BOOLEAN : cuic_return(fault)
    \/ \E data \in {<<>>, SmaxData} : smax_run(data)
    \/ \E fault \in BOOLEAN : run_export(fault)
    \/ run_cleanup
    \/ Tick

SpecPipe == InitPipe /\ [][NextPipe]_vars

\* A machine whose snapshot CSV is absent or was left by the wide version.
InitIng ==
    /\ now = 0
    /\ schema = FALSE
    /\ kpi_snapshots = EmptyBag
    /\ scrape_log = <<>>
    /\ files \in {NoFiles, [NoFiles EXCEPT !.snap = WideLegacy]}
    /\ config = DefaultSettings
    /\ exp = NoExport
    /\ run = NoRun
    /\ retired = {}
    /\ txn = NoTxn
    /\ srv = NoServer
    /\ last = NoCall
    /\ again = FALSE

\* The ingestion adapter and the retention of the snapshot CSV.
NextIng ==
    \/ \E d \in LongData, fault \in IngestFaults :
          call_process_worker_result_long("smax", d, fault)
    \/ \E d \in WideData, fault \in {"none", "save_refused", "save_torn"} :
          call_process_worker_result("smax", d, fault)
    \/ \E new \in SUBSET {PyStr(""), PyStr("hist"), PyStr("Tickets")} :
          call_update_data_dictionary_long(new, "smax")
    \/ \E new \in {{}, {"open"}, {"closed"}} : call_update_data_dictionary(new, "smax")
    \/ csv_cleanup_old_data(0)
    \/ Tick

SpecIng == InitIng /\ [][NextIng]_vars

\* The rows of a file whose statements may fail.
BadSets == SUBSET {1, 2}

\* migrate_csv_to_db on a disk that may fail any statement.
NextMig ==
    \/ init_db
    \/ \E d \in {b \in Batches : Len(b) = 1} : upsert_metrics("cuic", d, 0)
    \/ \E p \in Paths, bad \in BadSets : migrate_csv_to_db(p, bad)
    \/ Tick

SpecMig == Init /\ [][NextMig]_vars

\* A machine that may hold the CSV of the version before SQLite; the settings
\* are read once.
InitRun ==
    /\ now = 0
    /\ schema = FALSE
    /\ kpi_snapshots = EmptyBag
    /\ scrape_log = <<>>
    /\ files \in {NoFiles, [NoFiles EXCEPT !.out = InputFiles.old]}
    /\ config \in [same_dir : BOOLEAN, data_retention_days : 0 .. MaxKeep,
                   shared_drive_csv : {FALSE}]
    /\ exp = NoExport
    /\ run = NoRun
    /\ retired = {}
    /\ txn = NoTxn
    /\ srv = NoServer
    /\ last = NoCall
    /\ again = FALSE

\* Scheduled runs of the driver, one at a time.
NextRun ==
    \/ run_start
    \/ run_migrate
    \/ \E ok \in BOOLEAN : cuic_login(ok)
    \/ \E outcome \in Statuses \ {"skipped"}, fault \in LogFaults : cuic_report(outcome, fault)
    \/ \E fault \in BOOLEAN : cuic_return(fault)
    \/ \E data \in {<<>>, SmaxData} : smax_run(data)
    \/ \E fault \in BOOLEAN : run_export(fault)
    \/ run_cleanup
    \/ Tick

SpecRun == InitRun /\ [][NextRun]_vars

(***************************************************************************)
(* Claims about the metric store, checked under Spec.                      *)
(***************************************************************************)
RowCount(table) == BagCardinality(table)

\* The rows of a table compared by key and value, the timestamp left out.
KeyValues(table) == {<<Key(r), r.value>> : r \in Rows(table)}

\* The key the store gives item number i of a completed upsert_metrics call.
ItemKey(call, i) ==
    Key(TextRow(ParamRow(call.args.source, call.args.data[i], call.args.date, call.ts)))

\* The last item of the call's batch that has the key of item number i.
LastWithKey(call, i) ==
    CHOOSE j \in 1 .. Len(call.args.data) :
        /\ ItemKey(call, j) = ItemKey(call, i)
        /\ \A k \in 1 .. Len(call.args.data) : ItemKey(call, k) = ItemKey(call, i) => k <= j

\* C1: no two rows of kpi_snapshots share (date, source, metric_title,
\* category, sub_category), whatever sequence of init_db, upsert_metrics,
\* migrate_csv_to_db and cleanup_old_data calls was made.
C1_KeyUnique ==
    \A r \in Rows(kpi_snapshots) :
        /\ CopiesIn(r, kpi_snapshots) = 1
        /\ \A q \in Rows(kpi_snapshots) : Key(q) = Key(r) => q = r

\* A batch that names one key twice was applied a second time.
C1_Witness ==
    /\ last.op = "upsert_metrics" /\ last.ret = "ok" /\ again
    /\ Len(last.args.data) = 2
    /\ ItemKey(last, 1) = ItemKey(last, 2)
    /\ RowCount(kpi_snapshots) = 2

\* C2: last write wins.  After an upsert_metrics call that returned, every
\* key of its batch has exactly one row; the row's value is str() of the last
\* value the batch gives that key and its timestamp is the call's.
C2_LastWriteWins ==
    (last.op = "upsert_metrics" /\ last.ret = "ok") =>
        \A i \in 1 .. Len(last.args.data) :
            LET hits == {r \in Rows(kpi_snapshots) : Key(r) = ItemKey(last, i)}
                v2 == Get(last.args.data[LastWithKey(last, i)], "value", PyStr(""))
            IN  /\ Cardinality(hits) = 1
                /\ \A r \in hits :
                      /\ CopiesIn(r, kpi_snapshots) = 1
                      /\ r.value = Str(v2)
                      /\ r.timestamp = last.ts

\* v1 then v2 for one key in one batch, at a later tick than the row's first write.
C2_Witness ==
    /\ last.op = "upsert_metrics" /\ last.ret = "ok"
    /\ Len(last.args.data) = 2
    /\ ItemKey(last, 1) = ItemKey(last, 2)
    /\ Str(last.args.data[1].value) # Str(last.args.data[2].value)
    /\ last.ts > 0
    /\ again

\* C4: idempotent upsert.  A call of upsert_metrics that repeats the call
\* before it (same source, batch and date) leaves the rows, compared by key
\* and value, and row_count() as they were after the first.
C4_IdempotentUpsert ==
    [][(last'.op = "upsert_metrics" /\ again') =>
          /\ KeyValues(kpi_snapshots') = KeyValues(kpi_snapshots)
          /\ RowCount(kpi_snapshots') = RowCount(kpi_snapshots)]_vars

\* The second of two equal calls returned, at a later tick, with two rows stored.
C4_Witness ==
    /\ last.op = "upsert_metrics" /\ last.ret = "ok" /\ again
    /\ RowCount(kpi_snapshots) = 2
    /\ \E r \in Rows(kpi_snapshots) : r.timestamp = last.ts /\ last.ts > 0

\* C5: retention.  After cleanup_old_data(N) no row is dated before today - N
\* days, and every row dated on or after that day is still there with the same
\* value and timestamp.
C5_Retention ==
    [][(last'.op = "cleanup_old_data" /\ last'.ret >= 0) =>
          LET cutoff == Today(last'.ts) - last'.args.days
          IN  /\ \A r \in Rows(kpi_snapshots') : r.date >= cutoff
              /\ \A r \in Rows(kpi_snapshots) :
                    r.date >= cutoff =>
                        CopiesIn(r, kpi_snapshots') = CopiesIn(r, kpi_snapshots)]_vars

\* A cleanup deleted a row and kept the row dated on the cutoff day itself.
C5_Witness ==
    /\ last.op = "cleanup_old_data" /\ last.ret > 0
    /\ \E r \in Rows(kpi_snapshots) : r.date = Today(last.ts) - last.args.days

\* C9: migration is idempotent.  A migrate_csv_to_db call that repeats the
\* call before it on the same file leaves keys, values, timestamps and
\* row_count() as they were after the first.
C9_MigrationIdempotent ==
    [][(last'.op = "migrate_csv_to_db" /\ again') =>
          kpi_snapshots' = kpi_snapshots]_vars

\* The second import of a file with rows returned, at a later tick.
C9_Witness ==
    /\ last.op = "migrate_csv_to_db" /\ again
    /\ last.ret = 2
    /\ last.ts > 0
    /\ RowCount(kpi_snapshots) = 2

\* C10: migrate_csv_to_db leaves a row alone whose key is already stored:
\* its value and timestamp are the same after the call.
C10_MigrationSkipsExisting ==
    [][last'.op = "migrate_csv_to_db" =>
          \A r \in Rows(kpi_snapshots) :
              (\E m \in Rows(kpi_snapshots') : Key(m) = Key(r)) =>
                  r \in Rows(kpi_snapshots')]_vars

(***************************************************************************)
(* Claims about the transaction of upsert_metrics, checked under SpecTxn.  *)
(***************************************************************************)
\* C3: upsert_metrics is atomic per batch.  While the batch is being written
\* the committed table, which is what a concurrent reader sees, is the table
\* from before the call; if a statement fails the call raises and the table
\* is still that one; if the call returns every item of the batch has its row,
\* written by this call.
C3_AtomicBatch ==
    [][/\ txn'.pc = "exec" => kpi_snapshots' = txn'.base
       /\ (txn.pc = "exec" /\ txn'.pc = "idle" /\ last'.ret = "raise") =>
             kpi_snapshots' = txn.base
       /\ (txn.pc = "exec" /\ txn'.pc = "idle" /\ last'.ret = "ok") =>
             \A i \in 1 .. Len(txn.args.data) :
                 \E r \in Rows(kpi_snapshots') :
                     /\ Key(r) = ItemKey(last', i)
                     /\ r.timestamp = txn.ts
                     /\ r.value = Str(Get(txn.args.data[LastWithKey(last', i)],
                                          "value", PyStr("")))]_vars

\* A batch of two raised at its second item, after the first was written to
\* the transaction's table as a new row.
C3_Witness ==
    /\ last.op = "upsert_metrics" /\ last.ret = "raise" /\ txn.pc = "idle"
    /\ Len(last.args.data) = 2
    /\ Binds(ParamRow(last.args.source, last.args.data[1], last.args.date, last.ts))
    /\ ~Binds(ParamRow(last.args.source, last.args.data[2], last.args.date, last.ts))
    /\ schema
    /\ kpi_snapshots = EmptyBag

(***************************************************************************)
(* Claims about the scrape log, checked under SpecHist.                    *)
(***************************************************************************)
\* C7: has_historical_data(source, title) returns True exactly when (a) some
\* kpi_snapshots row has that source and metric_title = title and (b) the
\* scrape_log entry with the greatest id for (source, report_label = title)
\* has status 'success'; otherwise it returns False.
C7_HasHistoricalData ==
    last.op = "has_historical_data" =>
        LET entries == {scrape_log[i] : i \in 1 .. Len(scrape_log)}
            mine == {e \in entries : /\ e.source = last.args.source
                                     /\ e.report_label = last.args.metric_title}
            a == \E r \in Rows(kpi_snapshots) :
                    r.source = last.args.source /\ r.metric_title = last.args.metric_title
            b == \E e \in mine : e.status = "success" /\ \A f \in mine : f.id <= e.id
        IN  last.ret = (a /\ b)

\* Rows exist, an older entry is a success, the latest is not: False.
C7_Witness ==
    /\ last.op = "has_historical_data" /\ last.ret = FALSE
    /\ \E r \in Rows(kpi_snapshots) :
          r.source = last.args.source /\ r.metric_title = last.args.metric_title
    /\ Len(scrape_log) = 2
    /\ \A i \in 1 .. 2 : /\ scrape_log[i].source = last.args.source
                         /\ scrape_log[i].report_label = last.args.metric_title
    /\ scrape_log[1].status = "success"
    /\ scrape_log[2].status = "skipped"

(***************************************************************************)
(* Claims about the pipeline, checked under SpecRun.                       *)
(***************************************************************************)
\* C6: a row is created only by an observation of its key and destroyed only
\* by retention: once cleanup_old_data deleted a row at the end of a run, no
\* row with that key is in the store again unless a worker observed the key.
C6_RetiredStaysGone ==
    \A r \in Rows(kpi_snapshots) : Key(r) \notin retired

\* A 'success' entry for ('cuic', L) is in the scrape log and observations of
\* report L, which carry L as sub_category, are in the store.
Captured(report_label) ==
    /\ \E i \in 1 .. Len(scrape_log) :
          /\ scrape_log[i].source = "cuic"
          /\ scrape_log[i].report_label = report_label
          /\ scrape_log[i].status = "success"
    /\ \E row \in Rows(kpi_snapshots) :
          row.source = "cuic" /\ row.sub_category = report_label

\* C8: historical skip.  Once a historical report L was scraped successfully
\* and its observations are in the store, every later pass of Worker.scrape
\* over L logs 'skipped' and scrapes nothing.
C8_HistoricalSkip ==
    [][(/\ run.pc = "scrape" /\ run'.pc = "scrape" /\ run'.r = run.r + 1
        /\ Reports[run.r].data_type = "historical"
        /\ Captured(Reports[run.r].label)) =>
           /\ Len(scrape_log') = Len(scrape_log) + 1
           /\ scrape_log'[Len(scrape_log')].status = "skipped"
           /\ run'.all_data = run.all_data]_vars

(***************************************************************************)
(* Claims about the migration, checked under SpecMig.                      *)
(***************************************************************************)
\* C11: when the CSV is absent, empty or lacks a required column,
\* migrate_csv_to_db returns 0 and leaves the store as it was; otherwise the
\* rows whose upsert fails are skipped, every other row is in the store (its
\* key holds what the last such row of that key gives), the rows of other
\* keys are untouched, and the count returned is the number of rows upserted.
C11_MigrationErrors ==
    [][last'.op = "migrate_csv_to_db" =>
          LET file == InputFiles[last'.args.path]
              rows == MigrateRows(file)
              good == {i \in 1 .. Len(rows) : i \notin last'.args.bad}
              final(i) == CHOOSE j \in good :
                              /\ Key(rows[j]) = Key(rows[i])
                              /\ \A k \in good : Key(rows[k]) = Key(rows[i]) => k <= j
          IN  IF \/ ~file.exists
                 \/ file.rows = <<>>
                 \/ ~(RequiredColumns \subseteq file.header)
              THEN last'.ret = 0 /\ kpi_snapshots' = kpi_snapshots
              ELSE /\ last'.ret = Cardinality(good)
                   /\ \A i \in good : CopiesIn(rows[final(i)], kpi_snapshots') = 1
                   /\ \A r \in Rows(kpi_snapshots) :
                         (\A i \in good : Key(rows[i]) # Key(r)) =>
                             CopiesIn(r, kpi_snapshots') = CopiesIn(r, kpi_snapshots)]_vars

(***************************************************************************)
(* C12  The scrape log is append-only: a step changes it only by           *)
(* log_scrape adding one entry, whose id is greater than every id already  *)
(* there; every entry that was there stays as it was.  upsert_metrics,     *)
(* migrate_csv_to_db, cleanup_old_data, export_csv and init_db leave the   *)
(* log alone.                                                              *)
(***************************************************************************)
C12_AppendOnly ==
    [][/\ Len(scrape_log') >= Len(scrape_log)
       /\ \A i \in 1 .. Len(scrape_log) : scrape_log'[i] = scrape_log[i]
       /\ \A i \in Len(scrape_log) + 1 .. Len(scrape_log') :
             \A j \in 1 .. Len(scrape_log) : scrape_log'[i].id > scrape_log[j].id
       /\ scrape_log' # scrape_log =>
             /\ last'.op = "log_scrape"
             /\ Len(scrape_log') = Len(scrape_log) + 1]_vars

\* Two entries for the same report are in the log and the retention sweep
\* has just run over a table that an export had written out.
C12_Witness ==
    /\ Len(scrape_log) = 2
    /\ scrape_log[1].report_label = scrape_log[2].report_label
    /\ scrape_log[1].id < scrape_log[2].id
    /\ last.op = "cleanup_old_data"
    /\ files.out.exists

(***************************************************************************)
(* C13  get_latest_scrape_status returns exactly one entry for every       *)
(* (source, report_label) pair in the log, and that entry is the pair's    *)
(* entry of greatest id: no pair is missing, no older entry is returned.   *)
(***************************************************************************)
PairOf(e) == <<e.source, e.report_label>>

C13_LatestPerPair ==
    last.op = "get_latest_scrape_status" =>
        LET res == last.ret
        IN  /\ \A e \in Entries(scrape_log) :
                  Cardinality({i \in DOMAIN res : PairOf(res[i]) = PairOf(e)}) = 1
            /\ \A i \in DOMAIN res :
                  /\ res[i] \in Entries(scrape_log)
                  /\ \A e \in Entries(scrape_log) : PairOf(e) = PairOf(res[i]) => e.id <= res[i].id

\* A pair logged twice within the same second: the call returned its second
\* entry alone.
C13_Witness ==
    /\ last.op = "get_latest_scrape_status"
    /\ Len(scrape_log) = 2
    /\ PairOf(scrape_log[1]) = PairOf(scrape_log[2])
    /\ scrape_log[1].timestamp = scrape_log[2].timestamp
    /\ scrape_log[1].status # scrape_log[2].status
    /\ last.ret = <<scrape_log[2]>>

(***************************************************************************)
(* C14  log_scrape never raises to its caller: whatever fails while the    *)
(* entry is recorded, a failure to open or configure the connection        *)
(* included, the call returns normally.                                    *)
(***************************************************************************)
C14_LogScrapeNeverRaises ==
    last.op = "log_scrape" => last.ret = "ok"

(***************************************************************************)
(* C15  Atomic export: after every step of an export_csv call, a failed    *)
(* or partial write of the temporary file included, each destination       *)
(* (local and shared) holds either what it held when the call began or     *)
(* the complete new snapshot.                                              *)
(***************************************************************************)
C15_AtomicExport ==
    [][exp.pc # "idle" =>
          \A d \in {"out", "shared"} : files'[d] \in {exp.before[d], Snapshot(exp.df)}]_vars

\* The local write failed part-way: the temporary file holds one row of a
\* two-row table, the destination still holds the one-row snapshot of an
\* earlier export.
C15_Witness ==
    /\ last.op = "export_csv" /\ last.ret = "raise"
    /\ Cardinality(Rows(kpi_snapshots)) = 2
    /\ files.tmp.exists /\ files.tmp.header = LongColumns /\ Len(files.tmp.rows) = 1
    /\ files.out.exists /\ files.out.header = LongColumns /\ Len(files.out.rows) = 1

(***************************************************************************)
(* C16  The shared target is best-effort: an export_csv call that got as   *)
(* far as the shared path returns normally, and the local CSV then holds   *)
(* the new snapshot, whether or not the shared write (or the creation of   *)
(* its directory) failed.  A call that ends while the local path is being  *)
(* written with a shared path configured has failed: it raises, and        *)
(* neither the shared file nor its temporary file has been touched.        *)
(***************************************************************************)
C16_SharedBestEffort ==
    [][exp.pc # "idle" /\ exp'.pc = "idle" =>
          IF exp.to = "shared"
          THEN /\ last'.op = "export_csv" /\ last'.ret = "ok"
               /\ files'.out = Snapshot(exp.df)
          ELSE \/ /\ last'.op = "export_csv" /\ last'.ret = "raise"
                  /\ files'.shared = exp.before.shared
                  /\ files'.shared_tmp = exp.before.shared_tmp
               \/ /\ ~config.shared_drive_csv
                  /\ last'.op = "export_csv" /\ last'.ret = "ok"
                  /\ files'.out = Snapshot(exp.df)]_vars

\* The shared write failed part-way and the call returned normally with
\* the rows in the local file.
C16_Witness ==
    /\ last.op = "export_csv" /\ last.ret = "ok"
    /\ config.shared_drive_csv
    /\ files.out.exists /\ files.out.header = LongColumns /\ Len(files.out.rows) = 2
    /\ ~files.shared.exists
    /\ files.shared_tmp.exists /\ files.shared_tmp.header = LongColumns
    /\ Len(files.shared_tmp.rows) = 1

(***************************************************************************)
(* C17  Export round-trip: the rows of the CSV that export_csv wrote,      *)
(* read back, have the (date, source, metric_title, category,              *)
(* sub_category, value) tuples of query_all() at export time, in the same  *)
(* order, rows with an empty category or sub_category included; the        *)
(* shared file, once written, holds the rows of the local file.            *)
(***************************************************************************)
Tuple(r) == <<r.date, r.source, r.metric_title, r.category, r.sub_category, r.value>>

\* pd.read_csv(path).fillna('') and str() of every cell.
ReadBack(file) == MigrateRows(file)

C17_ExportRoundTrip ==
    [][exp.pc = "replace" /\ files'[exp.to] # files[exp.to] =>
          LET back == ReadBack(files'[exp.to])
          IN  /\ Len(back) = Len(exp.df)
              /\ \A i \in 1 .. Len(back) : Tuple(back[i]) = Tuple(exp.df[i])
              /\ exp.to = "shared" => files'.shared.rows = files'.out.rows]_vars

(***************************************************************************)
(* C18  After a run in which a worker's result was ingested successfully,  *)
(* whatever the other workers did, the CSV written by export_csv contains  *)
(* every observation ingested from the successful workers of that run,     *)
(* together with the rows already stored.                                  *)
(***************************************************************************)
\* The file has a row for the observation of the source.
HoldsItem(file, source_name, item) ==
    /\ file.exists
    /\ \E j \in 1 .. Len(file.rows) :
          /\ file.rows[j].source = source_name
          /\ file.rows[j].metric_title = Str(Get(item, "metric_title", PyStr("")))
          /\ file.rows[j].category = Str(Get(item, "category", PyStr("")))
          /\ file.rows[j].sub_category = Str(Get(item, "sub_category", PyStr("")))
          /\ file.rows[j].value = Str(Get(item, "value", PyStr("")))

\* export_csv went through: the local CSV is the table as query_all gives it.
Exported(file, table) ==
    /\ file.exists
    /\ file.header = LongColumns
    /\ file.rows \in query_all(table)

C18_ExportHoldsIngested ==
    [][/\ run.pc = "export" /\ run'.pc # "export"
       /\ run.workers_succeeded > 0
       /\ Exported(files'.out, kpi_snapshots)
       => \A i \in DOMAIN run.results :
             \A k \in DOMAIN run.results[i].data :
                 HoldsItem(files'.out, run.results[i].worker, run.results[i].data[k])]_vars

(***************************************************************************)
(* C19  Worker isolation: the discovered workers are processed one at a    *)
(* time in discovery order, each exactly once; a load failure, an          *)
(* exception, an empty result or a failed save of a worker is recorded in  *)
(* the summary and the loop goes on with the worker after it, whose data   *)
(* is ingested.                                                            *)
(***************************************************************************)
\* The file process_worker_result_long writes.
IngestFile(f) == IF config.same_dir THEN f.out ELSE f.snap

C19_WorkerIsolation ==
    [][/\ \A i \in DOMAIN run'.results : run'.results[i].worker = Workers[i]
       /\ run'.pc \in {"worker", "scrape"} =>
             /\ run'.w \in 1 .. Len(Workers)
             /\ Len(run'.results) = run'.w - 1
       /\ run'.pc \in {"export", "cleanup"} => Len(run'.results) = Len(Workers)
       /\ run'.workers_succeeded =
             Cardinality({i \in DOMAIN run'.results : run'.results[i].status = "success"})
       /\ run'.workers_failed =
             Cardinality({i \in DOMAIN run'.results : run'.results[i].status \in FailedStatuses})
       /\ run'.results # run.results /\ run.pc \in {"worker", "scrape"} =>
             /\ run'.results = Append(run.results, run'.results[Len(run'.results)])
             /\ run'.results[Len(run'.results)].worker = Workers[run.w]
             /\ run'.w = run.w + 1
             /\ \A k \in DOMAIN run'.results[Len(run'.results)].data :
                   HoldsItem(IngestFile(files'), Workers[run.w],
                             run'.results[Len(run'.results)].data[k])]_vars

\* The first worker failed to load and the second worker's data was
\* ingested after it.
C19_Witness ==
    /\ run.pc = "export"
    /\ Len(run.results) = 2
    /\ run.results[1].status = "load_failed"
    /\ run.results[2].status = "success"
    /\ run.workers_failed = 1 /\ run.workers_succeeded = 1
    /\ HoldsItem(IngestFile(files), "smax", SmaxData[1])

(***************************************************************************)
(* C20  Phase order of a run: init_db has completed before any worker is   *)
(* executed; a worker's result is ingested in the step that ends that      *)
(* worker, after its scrape and before the next worker starts; export_csv  *)
(* runs only after the last worker was processed; cleanup_old_data runs    *)
(* only after export_csv was attempted.                                    *)
(***************************************************************************)
C20_PhaseOrder ==
    [][/\ run'.pc \in {"worker", "scrape", "export", "cleanup"} => schema'
       /\ IngestFile(files') # IngestFile(files) /\ run.pc \in {"worker", "scrape"} =>
             /\ run'.w = run.w + 1
             /\ Len(run'.results) = Len(run.results) + 1
       /\ run.pc \in {"worker", "scrape"} => files'.out = files.out \/ config.same_dir
       /\ run'.pc = "scrape" => run.pc \in {"worker", "scrape"} /\ run'.w = run.w
       /\ run'.pc = "export" /\ run.pc # "export" =>
             /\ run.pc \in {"worker", "scrape"}
             /\ Len(run'.results) = Len(Workers)
       /\ run'.pc = "cleanup" /\ run.pc # "cleanup" => run.pc = "export"
       /\ kpi_snapshots' # kpi_snapshots => run.pc \in {"migrate", "cleanup"}]_vars

\* The retention cleanup has just deleted a row, after an export that
\* wrote the table out.
C20_Witness ==
    /\ run.pc = "idle" /\ run.runs > 0
    /\ run.workers_succeeded > 0
    /\ retired # {}
    /\ files.out.exists /\ files.out.header = LongColumns /\ files.out.rows # <<>>

(***************************************************************************)
(* C21  The ingestion adapter never propagates an exception:               *)
(* process_worker_result and process_worker_result_long return a boolean   *)
(* for every input and every failing step, True with the data in the       *)
(* snapshot CSV, False when a step raised.                                 *)
(***************************************************************************)
\* The snapshot has a row of today for the source with the column set.
HasRow(file, source_col, source_name, t, col) ==
    /\ file.exists
    /\ \E j \in 1 .. Len(file.rows) :
          /\ file.rows[j].date = Today(t)
          /\ file.rows[j][source_col] = source_name
          /\ col \in DOMAIN file.rows[j]

SnapshotTitles(file) ==
    IF file.exists /\ "metric_title" \in file.header
    THEN {file.rows[i].metric_title : i \in 1 .. Len(file.rows)}
    ELSE {}

\* The metric titles of the input.
InputTitles(data) == {Str(Get(data[i], "metric_title", PyStr(""))) : i \in 1 .. Len(data)}

\* A completed call of process_worker_result_long in which nothing failed.
LongCallStep ==
    /\ last'.op = "process_worker_result_long"
    /\ last'.args.fault = "none"
    /\ now' = now

C22_OnlyNewTitles ==
    [][LongCallStep =>
          LET absent == (InputTitles(last'.args.data) \ SnapshotTitles(files.snap)) \ {""}
              titles == SortedTexts(absent)
          IN  files'.doc = files.doc \o
                  [i \in 1 .. Len(titles) |->
                     [metric |-> titles[i], source |-> last'.args.source_name,
                      detected |-> now]]]_vars

(***************************************************************************)
(* C23  The data dictionary is append-only: after every call of            *)
(* update_data_dictionary_long or update_data_dictionary the document      *)
(* before the call is a prefix of the document after it, and the           *)
(* identifiers of the call have their entries in it, so that two calls     *)
(* with disjoint sets leave the entries of both, the first call's first.   *)
(***************************************************************************)
IsPrefix(a, b) == Len(a) <= Len(b) /\ SubSeq(b, 1, Len(a)) = a

\* A completed call of one of the two documentation engines.
EngineStep ==
    /\ last'.op \in {"update_data_dictionary_long", "update_data_dictionary"}
    /\ now' = now

C23_DocAppendOnly ==
    [][EngineStep =>
          /\ IsPrefix(files.doc, files'.doc)
          /\ \A x \in (last'.args.new \ {""}) \ WideColumns :
                \E i \in Len(files.doc) + 1 .. Len(files'.doc) : files'.doc[i].metric = x]_vars

(***************************************************************************)
(* Long ingestion and retention alone: calls of                            *)
(* process_worker_result_long that meet no fault, interleaved with         *)
(* cleanup_old_data of the snapshot CSV and the passing of time.           *)
(***************************************************************************)
InitDoc == InitIng /\ files = NoFiles

NextDoc ==
    \/ \E data \in LongData : call_process_worker_result_long("smax", data, "none")
    \/ csv_cleanup_old_data(0)
    \/ Tick

SpecDoc == InitDoc /\ [][NextDoc]_vars

(***************************************************************************)
(* C24  After any sequence of process_worker_result_long calls             *)
(* interleaved with retention cleanup of the snapshot, the data            *)
(* dictionary holds no identifier twice and has no entry for the empty     *)
(* title.                                                                  *)
(***************************************************************************)
C24_NoDuplicateEntry ==
    /\ \A i, j \in 1 .. Len(files.doc) :
          files.doc[i].metric = files.doc[j].metric => i = j
    /\ \A i \in 1 .. Len(files.doc) : files.doc[i].metric # ""

(***************************************************************************)
(* C25  process_worker_result(source, mapping) with a non-empty mapping,   *)
(* on a snapshot CSV that is absent or wide, returns True and leaves       *)
(* exactly one row for (today, source), holding the values of the          *)
(* mapping, also when the mapping brings columns the CSV did not have; a   *)
(* second call on the same day overwrites that row.                        *)
(***************************************************************************)
\* A completed call of the wide adapter that met no fault, on a snapshot
\* CSV that was absent or wide.
WideCallStep ==
    /\ last'.op = "process_worker_result"
    /\ last'.args.fault = "none"
    /\ now' = now
    /\ IF files.snap.exists THEN WideColumns \subseteq files.snap.header ELSE TRUE

\* The rows of (the day of t, source_name) in a wide snapshot CSV.
RowsOfToday(file, source_name, t) ==
    IF file.exists /\ WideColumns \subseteq file.header
    THEN {j \in 1 .. Len(file.rows) :
             file.rows[j].date = Today(t) /\ file.rows[j].source_name = source_name}
    ELSE {}

C25_WideUpsert ==
    [][WideCallStep =>
          LET rows == RowsOfToday(files'.snap, last'.args.source_name, now)
          IN  /\ last'.ret = TRUE
              /\ Cardinality(rows) = 1
              /\ \A j \in rows : \A c \in DOMAIN last'.args.data :
                    IF c \in files'.snap.header
                    THEN files'.snap.rows[j][c] = WriteCell(last'.args.data[c])
                    ELSE FALSE]_vars

(***************************************************************************)
(* The store as its readers see it: rows of several dates and sources      *)
(* written by upsert_metrics, read by query_by_date and query_all.         *)
(***************************************************************************)
NextQry ==
    \/ init_db
    \/ \E s \in Sources, d \in {b \in Batches : Len(b) = 1}, c \in Days : upsert_metrics(s, d, c)
    \/ \E a \in Days, b \in Days \cup {NoDate} : call_query_by_date(a, b)
    \/ call_query_all

SpecQry == Init /\ [][NextQry]_vars

(***************************************************************************)
(* C26  query_by_date(start, end) returns exactly the rows of the store    *)
(* with start <= date <= end, end standing for start when it is omitted;   *)
(* the results of query_by_date and of query_all are ordered non-          *)
(* decreasing by (date, source, metric_title).                             *)
(***************************************************************************)
\* The frame is in non-decreasing order of (date, source, metric_title).
Ordered(df) ==
    \A i, j \in 1 .. Len(df) : i < j =>
        \/ df[i].date < df[j].date
        \/ df[i].date = df[j].date /\ Rank(df[i].source) < Rank(df[j].source)
        \/ /\ df[i].date = df[j].date
           /\ df[i].source = df[j].source
           /\ Rank(df[i].metric_title) <= Rank(df[j].metric_title)

\* The frame holds each of the given rows once and nothing else.
HoldsExactly(df, rows) ==
    /\ {df[i] : i \in 1 .. Len(df)} = rows
    /\ Len(df) = Cardinality(rows)

C26_QueryByDate ==
    /\ (last.op = "query_by_date" /\ last.ret.ok) =>
          LET a == last.args.start_date
              b == IF last.args.end_date = NoDate THEN a ELSE last.args.end_date
          IN  /\ HoldsExactly(last.ret.df, {r \in Rows(kpi_snapshots) : a <= r.date /\ r.date <= b})
              /\ Ordered(last.ret.df)
    /\ (last.op = "query_all" /\ last.ret.ok) =>
          /\ HoldsExactly(last.ret.df, Rows(kpi_snapshots))
          /\ Ordered(last.ret.df)

\* A range of one day, given without its end, returned the row of that day
\* and left out the row of the other day.
C26_Witness ==
    /\ last.op = "query_by_date" /\ last.ret.ok
    /\ last.args.end_date = NoDate
    /\ Len(last.ret.df) = 1
    /\ Cardinality(Rows(kpi_snapshots)) = 2

(***************************************************************************)
(* C27  Long ingestion through the CSV is idempotent: a call of            *)
(* process_worker_result_long that repeats the previous call on the same   *)
(* day leaves the snapshot with the same number of rows and with no two    *)
(* rows sharing (date, source, metric_title, category, sub_category),      *)
(* also for observations with empty category and sub_category.             *)
(***************************************************************************)
\* No two rows of the snapshot CSV share the key.
KeysUnique(file) ==
    IF file.exists
    THEN \A i, j \in 1 .. Len(file.rows) :
            (\A c \in KeyCols : file.rows[i][c] = file.rows[j][c]) => i = j
    ELSE TRUE

\* The call repeats the call before it, made on the same day.
RepeatedLongCall ==
    /\ LongCallStep
    /\ last.op = "process_worker_result_long"
    /\ last.ret = TRUE
    /\ again'
    /\ Today(last.ts) = Today(now)
    /\ KeysUnique(files.snap)

C27_LongIdempotent ==
    [][RepeatedLongCall =>
          /\ Len(files'.snap.rows) = Len(files.snap.rows)
          /\ KeysUnique(files'.snap)]_vars

(***************************************************************************)
(* The CUIC worker with two enabled reports, a historical one and a        *)
(* realtime one, in runs of the driver whose other worker is disabled.     *)
(***************************************************************************)
TwoReports ==
    <<[label |-> "hist", data_type |-> "historical"],
      [label |-> "CUIC_Calls", data_type |-> "realtime"]>>

NextScr ==
    \/ run_start
    \/ run_migrate
    \/ worker_skip("disabled")
    \/ cuic_login(TRUE)
    \/ \E outcome \in {"success", "no_data", "error"}, fault \in LogFaults :
          scrape_report(TwoReports, outcome, fault)
    \/ scrape_return(TwoReports, FALSE)
    \/ run_export(FALSE)
    \/ run_cleanup

SpecScr == InitPipe /\ [][NextScr]_vars

(***************************************************************************)
(* C28  In a run of Worker.scrape after a successful login every enabled   *)
(* report appends exactly one scrape_log entry, with status success,       *)
(* error, no_data or skipped; after a failed report the loop goes on with  *)
(* the next report; a success entry is written only for a report that      *)
(* added at least one observation to the returned list, and its row_count  *)
(* is that number.                                                         *)
(***************************************************************************)
\* One pass of the loop of Worker.scrape was made.
ScrapePass == run.pc = "scrape" /\ run.r <= Len(TwoReports) /\ run' # run

C28_OneEntryPerReport ==
    [][ScrapePass =>
          /\ Len(scrape_log') = Len(scrape_log) + 1
          /\ SubSeq(scrape_log', 1, Len(scrape_log)) = scrape_log
          /\ LET e == scrape_log'[Len(scrape_log')]
                 added == Len(run'.all_data) - Len(run.all_data)
             IN  /\ e.source = "cuic"
                 /\ e.report_label = TwoReports[run.r].label
                 /\ e.status \in {"success", "error", "no_data", "skipped"}
                 /\ e.status = "success" => added >= 1 /\ e.row_count = added
                 /\ e.status # "success" => added = 0
          /\ run'.pc = "scrape"
          /\ run'.r = run.r + 1]_vars

(***************************************************************************)
(* The settings server with up to MaxReq discovery requests, handled one   *)
(* at a time or each in its own thread.                                    *)
(***************************************************************************)
InitSrv ==
    /\ now = 0
    /\ schema = FALSE
    /\ kpi_snapshots = EmptyBag
    /\ scrape_log = <<>>
    /\ files = NoFiles
    /\ config = DefaultSettings
    /\ exp = NoExport
    /\ run = NoRun
    /\ retired = {}
    /\ txn = NoTxn
    /\ srv \in {[NoServer EXCEPT !.threaded = t] : t \in BOOLEAN}
    /\ last = NoCall
    /\ again = FALSE

NextSrv ==
    \E r \in Requests :
       \/ \E path \in DiscoverPaths, body \in {"ok", "bad_json", "bad_length"} :
             do_POST(r, path, body)
       \/ \E sent \in BOOLEAN : discover_check(r, sent)
       \/ \E ok \in BOOLEAN : discover_run(r, ok)
       \/ discover_finally(r)
       \/ discover_except(r)

SpecSrv == InitSrv /\ [][NextSrv]_vars

AdapterStep ==
    /\ last'.op \in {"process_worker_result_long", "process_worker_result"}
    /\ now' = now

C30_FailedPersistsNothing ==
    [][AdapterStep /\ last'.ret = FALSE =>
          files'.snap = files.snap /\ files'.doc = files.doc]_vars

====
